---- MODULE Spec2Model ----
(***************************************************************************)
(* FingerBerry: the R503 sensor manager (fingerprint/r503manager.py), its  *)
(* LED controller (fingerprint/r503led.py) and the continuous verification *)
(* loop with its start/stop entry points (api/background.py).              *)
(*                                                                         *)
(* Every Python function is a frame on the call stack of the process that  *)
(* runs it; one step of a process is one device command (a pyfingerprint   *)
(* call or one LED packet) of the frame on top of its stack.  Processes:   *)
(* the event loop (Foreground), which runs the request-triggered manager   *)
(* operations one after the other, the loop threads created by             *)
(* start_continuous, and the pool workers that run start_continuous.       *)
(***************************************************************************)
EXTENDS Integers, Sequences, FiniteSets, TLC

\* ---------------------------------------------------------------- bounds
NumFingers == 2      \* distinct fingers the user may present
Capacity == 2        \* getStorageCapacity() of the modelled sensor
MaxThreads == 2      \* threading.Thread objects created over a run
NumWorkers == 2      \* pool workers that may run start_continuous
MaxRequests == 2     \* foreground requests served over a run
MaxStops == 2        \* stop_continuous calls over a run
MaxFaults == 2       \* device faults within one foreground operation
NumSockets == 3      \* websocket clients that connect over a run

\* ------------------------------------------------------ program constants
RED == 1
BLUE == 2
PURPLE == 3
GREEN == 4
BLINK == 1
ON == 2
OFF == 4

None == -2           \* Python's None where an integer is expected
NoFinger == 0        \* nothing on the sensor / an empty slot / an empty buffer

Fingers == 1..NumFingers
Positions == 0..(Capacity - 1)
Foreground == 0
Threads == 1..MaxThreads
Workers == 1..NumWorkers
\* A second coroutine of the event loop, beside the foreground one.
Second == MaxThreads + 1
Coroutines == {Foreground, Second}
Procs == {Foreground} \cup Threads \cup {Second}
Sockets == 1..NumSockets

VARIABLES
  sensorFinger,        \* the finger physically on the sensor (environment)
  dev,                 \* the sensor: templates, image buffer, char buffers, LED
  mgr,                 \* fingerprint_manager: created?, .finger set?, .led.ser open?
  stack,               \* per process: the call stack, top first
  log,                 \* device commands of the running foreground operation
  hist,                \* the finished foreground operations, oldest first
  snap,                \* the template database when the foreground operation began
  thread,              \* per loop thread: unborn, created, alive, stopped, crashed
  threadInfo,          \* per loop thread: history of the start that spawned it
  continuous_thread,   \* _continuous_thread: a thread id, or 0 for None
  stop_event,          \* _stop_event.is_set()
  worker,              \* per pool worker: position inside start_continuous
  stop_calls,          \* stop_continuous: calls made, last result
  emitted,             \* per loop thread: events broadcast in its current iteration
  metadata,            \* fingerprint_data.json: the action stored for each position
  executed,            \* per process: executor calls of its current verification
  written,             \* the LED link: sends made, the last one's arguments and bytes
  running,             \* the coroutine the event loop is running, or None
  websocket            \* ConnectionManager: active_connections and the broadcast in progress

\* What the action executor works from and what it was asked to do.
smarthome == <<metadata, executed>>

vars == <<sensorFinger, dev, mgr, stack, log, hist, snap,
          thread, threadInfo, continuous_thread, stop_event, worker, stop_calls,
          emitted, smarthome, written, running, websocket>>

\* ------------------------------------------------------------ the sensor
\* getTemplateCount(): the number of occupied slots.
getTemplateCount(d) == Cardinality({p \in Positions : d.templates[p] # NoFinger})

getStorageCapacity == Capacity

\* readImage(): captures the finger on the sensor into the image buffer;
\* False (and no capture) when there is none.
readImage(d, f) == IF f # NoFinger THEN [d EXCEPT !.image = f] ELSE d

\* convertImage(n): features of the image buffer into char buffer n.
convertImage(d, n) ==
  IF n = 1 THEN [d EXCEPT !.charbuf1 = d.image] ELSE [d EXCEPT !.charbuf2 = d.image]

Matches(d) == {p \in Positions : d.charbuf1 # NoFinger /\ d.templates[p] = d.charbuf1}

Min(S) == CHOOSE x \in S : \A y \in S : x <= y

\* searchTemplate(): called without arguments, so it searches char buffer 1
\* over the whole database; (-1, -1) when nothing matches.
searchTemplate(d) ==
  IF Matches(d) = {} THEN <<-1, -1>> ELSE <<Min(Matches(d)), 10 * d.charbuf1>>

\* createTemplate() merges the two char buffers; it raises when they are not
\* of the same finger.
createTemplateOk(d) == d.charbuf1 # NoFinger /\ d.charbuf1 = d.charbuf2

\* storeTemplate(position): char buffer 1 into the slot.
storeTemplate(d, position) == [d EXCEPT !.templates[position] = d.charbuf1]

\* deleteTemplate(position), accepted by the device.
deleteTemplate(d, position) == [d EXCEPT !.templates[position] = NoFinger]

clearDatabaseMutant(d) == [d EXCEPT !.templates[0] = NoFinger]

\* clearDatabase(): every slot emptied.
clearDatabase(d) == [d EXCEPT !.templates = [p \in Positions |-> NoFinger]]

\* R503LED.control_led: the LED shows the last (mode, color) it was sent.
control_led(d, mode, color) == [d EXCEPT !.led = <<mode, color>>]

\* ------------------------------------------------------------ call stacks
\* Python's None where a string is expected.
NoAction == "<None>"

Frame(fn, pc) ==
  [fn |-> fn, pc |-> pc, position |-> None, position_number |-> None, accuracy |-> None,
   action |-> NoAction, success |-> FALSE, fp |-> None]

Top(p) == Head(stack[p])

\* An outcome of a step: the new stack, and, when the stack emptied, how the
\* bottom function ended (returned val, or raised).
Running(s) == [stack |-> s, done |-> FALSE, val |-> None, raised |-> FALSE]

Goto(p, pc) == Running(<<[Top(p) EXCEPT !.pc = pc]>> \o Tail(stack[p]))

GotoFrame(p, f) == Running(<<f>> \o Tail(stack[p]))

Call(p, fn, pc) == Running(<<Frame(fn, pc)>> \o stack[p])

\* `return False, position_number`
AlreadyExistsResultMutant(f) == <<FALSE, f.position>>

AlreadyExistsResult(f) == <<FALSE, f.position_number>>

EnrolledResultMutant(f) == <<TRUE, f.position_number>>

\* `return True, position`
EnrolledResult(f) == <<TRUE, f.position>>

\* `success, position, _ = self.verify_finger()`
VerifiedPositionMutant(v) == v[3]

VerifiedPosition(v) == v[2]

EnrollAfterWaitMutant(v, pc) == [ret |-> FALSE, val |-> None, pc |-> pc]

\* `if not self.wait_for_finger(): return False, None` of enroll_finger, and
\* the same after its first wait_finger_removed.
EnrollAfterWait(v, pc) ==
  IF v THEN [ret |-> FALSE, val |-> None, pc |-> pc]
  ELSE [ret |-> TRUE, val |-> <<FALSE, None>>, pc |-> ""]

\* Where a caller continues when its callee returned v.
Resume(f, v) ==
  CASE f.fn = "enroll_finger" /\ f.pc = "wait_for_finger1" ->
         EnrollAfterWait(v, "convertImage1")
    [] f.fn = "enroll_finger" /\ f.pc = "wait_finger_removed1" ->
         EnrollAfterWait(v, "wait_for_finger2")
    [] f.fn = "enroll_finger" /\ f.pc = "wait_for_finger2" ->
         EnrollAfterWait(v, "convertImage2")
    [] f.fn = "enroll_finger" /\ f.pc = "exists_wait_finger_removed" ->
         [ret |-> TRUE, val |-> AlreadyExistsResult(f), pc |-> ""]
    [] f.fn = "enroll_finger" /\ f.pc = "success_wait_finger_removed" ->
         [ret |-> TRUE, val |-> EnrolledResult(f), pc |-> ""]
    [] f.fn = "verify_finger" /\ f.pc = "wait_for_finger" ->
         IF v THEN [ret |-> FALSE, val |-> None, pc |-> "convertImage"]
         ELSE [ret |-> TRUE, val |-> <<FALSE, None, None>>, pc |-> ""]
    [] f.fn = "verify_finger" /\ f.pc = "success_wait_finger_removed" ->
         [ret |-> TRUE, val |-> <<TRUE, f.position, f.accuracy>>, pc |-> ""]
    [] f.fn = "verify_finger" /\ f.pc = "not_found_wait_finger_removed" ->
         [ret |-> TRUE, val |-> <<FALSE, None, None>>, pc |-> ""]
    [] f.fn = "delete_finger" /\ f.pc = "verify_finger" ->
         IF v[1] THEN [ret |-> FALSE, val |-> VerifiedPosition(v), pc |-> "deleteTemplate"]
         ELSE [ret |-> TRUE, val |-> FALSE, pc |-> ""]
    [] f.fn = "_continuous_loop" /\ f.pc = "wait_finger_removed" ->
         [ret |-> FALSE, val |-> None, pc |-> "while"]
    [] f.fn = "enroll_fingerprint_task" /\ f.pc = "enroll_finger" ->
         [ret |-> FALSE, val |-> v, pc |-> "add_fingerprint"]
    [] f.fn = "delete_fingerprint_task" /\ f.pc = "verify_finger" ->
         [ret |-> FALSE, val |-> v,
          pc |-> IF v[1] /\ v[2] # None THEN "broadcast_found" ELSE "broadcast_not_found"]
    [] f.fn = "delete_fingerprint_task" /\ f.pc = "delete_finger" ->
         [ret |-> FALSE, val |-> v, pc |-> "remove_fingerprint"]
    [] f.fn = "clear_database_task" /\ f.pc = "clear_database" ->
         [ret |-> FALSE, val |-> v, pc |-> "clear_all_fingerprints"]
    [] f.fn = "get_count" /\ f.pc = "get_template_count" ->
         [ret |-> FALSE, val |-> v, pc |-> "return"]
    [] f.fn = "verify_fingerprint_task" /\ f.pc = "verify_finger" ->
         [ret |-> FALSE, val |-> v,
          pc |-> IF v[1] THEN "get_fingerprint_by_position" ELSE "broadcast_failed"]

\* delete_finger binds the verified position to its own `position`, the
\* tasks bind `success`, `position` and `accuracy` as their assignments do.
Resumed(f, r) ==
  CASE f.fn = "delete_finger" -> [f EXCEPT !.pc = r.pc, !.position = r.val]
    [] f.fn = "verify_fingerprint_task" ->
         [f EXCEPT !.pc = r.pc, !.position = r.val[2], !.accuracy = r.val[3]]
    [] f.fn = "enroll_fingerprint_task" ->
         [f EXCEPT !.pc = r.pc, !.success = r.val[1], !.position = r.val[2]]
    [] f.fn = "delete_fingerprint_task" /\ f.pc = "verify_finger" ->
         [f EXCEPT !.pc = r.pc, !.success = r.val[1], !.position = r.val[2]]
    [] f.fn \in {"delete_fingerprint_task", "clear_database_task"} ->
         [f EXCEPT !.pc = r.pc, !.success = r.val]
    [] f.fn = "get_count" -> [f EXCEPT !.pc = r.pc, !.position = r.val]
    [] OTHER -> [f EXCEPT !.pc = r.pc]

RECURSIVE Return(_, _)
\* The top frame of s returns v: pop it and continue the caller, which may
\* return in turn.
Return(s, v) ==
  IF Len(s) = 1
  THEN [stack |-> <<>>, done |-> TRUE, val |-> v, raised |-> FALSE]
  ELSE LET f == s[2]
           r == Resume(f, v)
       IN IF r.ret THEN Return(Tail(s), r.val)
          ELSE Running(<<Resumed(f, r)>> \o Tail(Tail(s)))

\* The statements of each function that sit inside its try block.
InTry(f) ==
  CASE f.fn = "wait_for_finger" -> f.pc \in {"readImage", "led_on"}
    [] f.fn = "wait_finger_removed" -> f.pc \in {"readImage", "led_off"}
    [] f.fn = "_continuous_loop" -> f.pc \notin {"while", "handler", "error_send_text"}
    [] f.fn = "connect" -> f.pc \notin {"handler", "handler_led_off"}
    [] OTHER -> f.pc # "handler"

RECURSIVE Raise(_)
\* An exception raised by the top frame of s: the innermost enclosing try
\* takes it; with none, it leaves the bottom function.
Raise(s) ==
  IF s = <<>>
  THEN [stack |-> <<>>, done |-> TRUE, val |-> None, raised |-> TRUE]
  ELSE IF InTry(Head(s))
       THEN Running(<<[Head(s) EXCEPT !.pc = "handler"]>> \o Tail(s))
       ELSE Raise(Tail(s))

NoEvent == <<"", 0, 0>>

\* Repeated polls of one wait are logged once.
Logged(l, ev) ==
  IF ev = NoEvent \/ (Len(l) > 0 /\ l[Len(l)] = ev) THEN l ELSE Append(l, ev)

\* The events a loop thread broadcast in its current iteration, with the
\* faults raised in it; a new iteration starts an empty record.
Emitted(l, ev) ==
  IF ev[1] = "iteration" THEN <<>>
  ELSE IF ev[1] \in {"continuous_verify", "error", "fault"} THEN Append(l, ev)
       ELSE l

BottomFn(p) == stack[p][Len(stack[p])].fn

\* Process p completes one step: outcome o, device d, logged command ev,
\* manager fields m, executor calls x of p's verification so far.
ApplyX(p, o, d, ev, m, x) ==
  /\ stack' = [stack EXCEPT ![p] = o.stack]
  /\ dev' = d
  /\ mgr' = m
  /\ log' = IF p = Foreground THEN Logged(log, ev) ELSE log
  /\ hist' = IF o.done /\ p = Foreground
             THEN Append(hist, [op |-> BottomFn(p), val |-> o.val, raised |-> o.raised,
                                pre |-> snap, db |-> d.templates])
             ELSE hist
  /\ thread' = IF o.done /\ p \in Threads
               THEN [thread EXCEPT ![p] = IF o.val = 1 THEN "stopped" ELSE "crashed"]
               ELSE thread
  /\ emitted' = IF p \in Threads THEN [emitted EXCEPT ![p] = Emitted(@, ev)] ELSE emitted
  /\ executed' = [executed EXCEPT ![p] = x]
  /\ UNCHANGED <<sensorFinger, snap, threadInfo, continuous_thread, stop_event,
                 worker, stop_calls, metadata, written, websocket, running>>

ApplyM(p, o, d, ev, m) == ApplyX(p, o, d, ev, m, executed[p])

Apply(p, o, d, ev) == ApplyM(p, o, d, ev, mgr)

\* What the device may answer to a call: accepted, or declined.
DeviceAnswers == BOOLEAN

\* R503LED.send_command writes to self.ser: with the LED link never opened
\* (ser is None) the write raises.
Led(p, mode, color, o) ==
  IF mgr.ser
  THEN Apply(p, o, control_led(dev, mode, color), <<"led", mode, color>>)
  ELSE Apply(p, Raise(stack[p]), dev, NoEvent)

At(p, fn) == stack[p] # <<>> /\ Top(p).fn = fn

\* --------------------------------------------------------- R503Manager
set_led_status_ERRORMutant(p, o) == Apply(p, o, dev, NoEvent)

set_led_status_ERROR(p, o) == Led(p, ON, RED, o)

ImageCapturedMutant(finger) == TRUE

\* What readImage() answers: True when it captured the image of a finger.
ImageCaptured(finger) == finger # NoFinger

wait_for_finger(p) ==
  /\ At(p, "wait_for_finger")
  /\ LET pc == Top(p).pc IN
     CASE pc = "led_blink" ->
            IF ~mgr.finger THEN Apply(p, Return(stack[p], FALSE), dev, NoEvent)
            ELSE Led(p, BLINK, BLUE, Goto(p, "readImage"))
       [] pc = "readImage" ->
            IF ImageCaptured(sensorFinger)
            THEN Apply(p, Goto(p, "led_on"), readImage(dev, sensorFinger),
                       <<"readImage", 1, sensorFinger>>)
            ELSE Apply(p, Goto(p, "readImage"), dev, <<"readImage", 0, 0>>)
       [] pc = "led_on" -> Led(p, ON, BLUE, Return(stack[p], TRUE))
       [] pc = "handler" -> set_led_status_ERROR(p, Return(stack[p], FALSE))

wait_finger_removed(p) ==
  /\ At(p, "wait_finger_removed")
  /\ LET pc == Top(p).pc IN
     CASE pc = "led_blink" ->
            IF ~mgr.finger THEN Apply(p, Return(stack[p], FALSE), dev, NoEvent)
            ELSE Led(p, BLINK, PURPLE, Goto(p, "readImage"))
       [] pc = "readImage" ->
            IF sensorFinger # NoFinger
            THEN Apply(p, Goto(p, "readImage"), readImage(dev, sensorFinger),
                       <<"readImage", 1, 0>>)
            ELSE Apply(p, Goto(p, "led_off"), dev, <<"readImage", 0, 0>>)
       [] pc = "led_off" -> Led(p, OFF, BLUE, Return(stack[p], TRUE))
       [] pc = "handler" -> set_led_status_ERROR(p, Return(stack[p], FALSE))

\* `if position >= self.finger.getStorageCapacity()`
DatabaseFullMutant(position) == position > getStorageCapacity

DatabaseFull(position) == position >= getStorageCapacity

\* `if position_number >= 0`
AlreadyExistsMutant(position_number) == position_number > 0

AlreadyExists(position_number) == position_number >= 0

enroll_finger(p) ==
  /\ At(p, "enroll_finger")
  /\ LET f == Top(p)
         pc == f.pc
     IN
     CASE pc = "getTemplateCount" ->
            IF ~mgr.finger THEN Apply(p, Return(stack[p], <<FALSE, None>>), dev, NoEvent)
            ELSE Apply(p, GotoFrame(p, [f EXCEPT !.pc = "getStorageCapacity",
                                                 !.position = getTemplateCount(dev)]),
                       dev, <<"getTemplateCount", getTemplateCount(dev), 0>>)
       [] pc = "getStorageCapacity" ->
            Apply(p, Goto(p, IF DatabaseFull(f.position)
                             THEN "full_led" ELSE "wait_for_finger1"),
                  dev, <<"getStorageCapacity", getStorageCapacity, 0>>)
       [] pc = "full_led" -> set_led_status_ERROR(p, Return(stack[p], <<FALSE, None>>))
       [] pc = "wait_for_finger1" ->
            Apply(p, Call(p, "wait_for_finger", "led_blink"), dev, <<"wait_for_finger", 1, 0>>)
       [] pc = "convertImage1" ->
            Apply(p, Goto(p, "wait_finger_removed1"), convertImage(dev, 1),
                  <<"convertImage", 1, dev.image>>)
       [] pc = "wait_finger_removed1" ->
            Apply(p, Call(p, "wait_finger_removed", "led_blink"), dev,
                  <<"wait_finger_removed", 1, 0>>)
       [] pc = "wait_for_finger2" ->
            Apply(p, Call(p, "wait_for_finger", "led_blink"), dev, <<"wait_for_finger", 2, 0>>)
       [] pc = "convertImage2" ->
            Apply(p, Goto(p, "searchTemplate"), convertImage(dev, 2),
                  <<"convertImage", 2, dev.image>>)
       [] pc = "searchTemplate" ->
            LET r == searchTemplate(dev) IN
            Apply(p, GotoFrame(p, [f EXCEPT !.position_number = r[1],
                                            !.pc = IF AlreadyExists(r[1]) THEN "exists_led"
                                                   ELSE "createTemplate"]),
                  dev, <<"searchTemplate", r[1], r[2]>>)
       [] pc = "exists_led" -> Led(p, BLINK, PURPLE, Goto(p, "exists_wait_finger_removed"))
       [] pc = "exists_wait_finger_removed" ->
            Apply(p, Call(p, "wait_finger_removed", "led_blink"), dev,
                  <<"wait_finger_removed", 2, 0>>)
       [] pc = "createTemplate" ->
            IF createTemplateOk(dev)
            THEN Apply(p, Goto(p, "storeTemplate"), dev, <<"createTemplate", 1, 0>>)
            ELSE Apply(p, Raise(stack[p]), dev, <<"createTemplate", 0, 0>>)
       [] pc = "storeTemplate" ->
            Apply(p, Goto(p, "success_led"), storeTemplate(dev, f.position),
                  <<"storeTemplate", f.position, dev.charbuf1>>)
       [] pc = "success_led" -> Led(p, ON, GREEN, Goto(p, "led_off"))
       [] pc = "led_off" -> Led(p, OFF, BLUE, Goto(p, "success_wait_finger_removed"))
       [] pc = "success_wait_finger_removed" ->
            Apply(p, Call(p, "wait_finger_removed", "led_blink"), dev,
                  <<"wait_finger_removed", 3, 0>>)
       [] pc = "handler" -> set_led_status_ERROR(p, Return(stack[p], <<FALSE, None>>))

FoundMutant(position) == position > 0

\* `if position >= 0` of verify_finger
Found(position) == position >= 0

verify_finger(p) ==
  /\ At(p, "verify_finger")
  /\ LET f == Top(p)
         pc == f.pc
     IN
     CASE pc = "wait_for_finger" ->
            IF ~mgr.finger
            THEN Apply(p, Return(stack[p], <<FALSE, None, None>>), dev, NoEvent)
            ELSE Apply(p, Call(p, "wait_for_finger", "led_blink"), dev,
                       <<"wait_for_finger", 1, 0>>)
       [] pc = "convertImage" ->
            Apply(p, Goto(p, "searchTemplate"), convertImage(dev, 1),
                  <<"convertImage", 1, dev.image>>)
       [] pc = "searchTemplate" ->
            LET r == searchTemplate(dev) IN
            Apply(p, GotoFrame(p, [f EXCEPT !.position = r[1], !.accuracy = r[2],
                                            !.pc = IF Found(r[1]) THEN "success_led"
                                                   ELSE "not_found_led"]),
                  dev, <<"searchTemplate", r[1], r[2]>>)
       [] pc = "success_led" -> Led(p, ON, GREEN, Goto(p, "success_led_off"))
       [] pc = "success_led_off" -> Led(p, OFF, BLUE, Goto(p, "success_wait_finger_removed"))
       [] pc = "success_wait_finger_removed" ->
            Apply(p, Call(p, "wait_finger_removed", "led_blink"), dev,
                  <<"wait_finger_removed", 1, 0>>)
       [] pc = "not_found_led" -> Led(p, BLINK, RED, Goto(p, "not_found_led_off"))
       [] pc = "not_found_led_off" ->
            Led(p, OFF, BLUE, Goto(p, "not_found_wait_finger_removed"))
       [] pc = "not_found_wait_finger_removed" ->
            Apply(p, Call(p, "wait_finger_removed", "led_blink"), dev,
                  <<"wait_finger_removed", 2, 0>>)
       [] pc = "handler" -> set_led_status_ERROR(p, Return(stack[p], <<FALSE, None, None>>))

delete_finger(p) ==
  /\ At(p, "delete_finger")
  /\ LET f == Top(p)
         pc == f.pc
     IN
     CASE pc = "enter" ->
            IF ~mgr.finger THEN Apply(p, Return(stack[p], FALSE), dev, NoEvent)
            ELSE IF f.position = None
                 THEN Apply(p, Running(<<Frame("verify_finger", "wait_for_finger"),
                                         [f EXCEPT !.pc = "verify_finger"]>>
                                       \o Tail(stack[p])),
                            dev, <<"verify_finger", 0, 0>>)
                 ELSE Apply(p, Goto(p, "deleteTemplate"), dev, NoEvent)
       [] pc = "deleteTemplate" ->
            IF f.position \notin Positions
            THEN Apply(p, Raise(stack[p]), dev, <<"deleteTemplate", f.position, -1>>)
            ELSE \E accepted \in DeviceAnswers :
                   IF accepted
                   THEN Apply(p, Goto(p, "success_led"), deleteTemplate(dev, f.position),
                              <<"deleteTemplate", f.position, 1>>)
                   ELSE Apply(p, Goto(p, "error_led"), dev,
                              <<"deleteTemplate", f.position, 0>>)
       [] pc = "success_led" -> Led(p, ON, GREEN, Goto(p, "led_off"))
       [] pc = "led_off" -> Led(p, OFF, BLUE, Return(stack[p], TRUE))
       [] pc = "error_led" -> set_led_status_ERROR(p, Return(stack[p], FALSE))
       [] pc = "handler" -> set_led_status_ERROR(p, Return(stack[p], FALSE))

get_template_count(p) ==
  /\ At(p, "get_template_count")
  /\ LET pc == Top(p).pc IN
     CASE pc = "getTemplateCount" ->
            IF ~mgr.finger THEN Apply(p, Return(stack[p], None), dev, NoEvent)
            ELSE Apply(p, Return(stack[p], getTemplateCount(dev)), dev,
                       <<"getTemplateCount", getTemplateCount(dev), 0>>)
       [] pc = "handler" -> set_led_status_ERROR(p, Return(stack[p], None))

clear_database(p) ==
  /\ At(p, "clear_database")
  /\ LET pc == Top(p).pc IN
     CASE pc = "clearDatabase" ->
            IF ~mgr.finger THEN Apply(p, Return(stack[p], FALSE), dev, NoEvent)
            ELSE Apply(p, Goto(p, "success_led"), clearDatabase(dev),
                       <<"clearDatabase", 0, 0>>)
       [] pc = "success_led" -> Led(p, ON, GREEN, Goto(p, "led_off"))
       [] pc = "led_off" -> Led(p, OFF, BLUE, Return(stack[p], TRUE))
       [] pc = "handler" -> set_led_status_ERROR(p, Return(stack[p], FALSE))

\* ------------------------------------------------------------ environment
PlaceFinger ==
  /\ sensorFinger = NoFinger
  /\ \E f \in Fingers : sensorFinger' = f
  /\ UNCHANGED <<dev, mgr, stack, log, hist, snap, thread, threadInfo,
                 continuous_thread, stop_event, worker, stop_calls, emitted, smarthome,
                 written, websocket, running>>

RemoveFinger ==
  /\ sensorFinger # NoFinger
  /\ sensorFinger' = NoFinger
  /\ UNCHANGED <<dev, mgr, stack, log, hist, snap, thread, threadInfo,
                 continuous_thread, stop_event, worker, stop_calls, emitted, smarthome,
                 written, websocket, running>>

\* ------------------------------------------------------------- connect
\* R503Manager.connect() with every call succeeding: .finger and .led.ser are
\* set, the LED goes green, then off.
connected(d) == control_led(control_led(d, ON, GREEN), OFF, BLUE)

Connected == [made |-> TRUE, finger |-> TRUE, ser |-> TRUE]

\* R503Manager.connect(), call by call.  The serial port may fail to open, in
\* the PyFingerprint constructor or in R503LED.connect, and the password check
\* may fail; self.finger and self.led.ser are set only by the call that opens
\* them.
connect(p) ==
  /\ At(p, "connect")
  /\ LET pc == Top(p).pc IN
     CASE pc = "PyFingerprint" ->
            \E opened \in DeviceAnswers :
              IF opened
              THEN ApplyM(p, Goto(p, "led_connect"), dev, <<"PyFingerprint", 1, 0>>,
                          [mgr EXCEPT !.finger = TRUE])
              ELSE ApplyM(p, Raise(stack[p]), dev, <<"PyFingerprint", 0, 0>>, mgr)
       [] pc = "led_connect" ->
            \E opened \in DeviceAnswers :
              IF opened
              THEN ApplyM(p, Goto(p, "verifyPassword"), dev, <<"led_connect", 1, 0>>,
                          [mgr EXCEPT !.ser = TRUE])
              ELSE ApplyM(p, Raise(stack[p]), dev, <<"led_connect", 0, 0>>, mgr)
       [] pc = "verifyPassword" ->
            \E verified \in DeviceAnswers :
              IF verified
              THEN Apply(p, Goto(p, "led_on"), dev, <<"verifyPassword", 1, 0>>)
              ELSE Apply(p, Raise(stack[p]), dev, <<"verifyPassword", 0, 0>>)
       [] pc = "led_on" -> Led(p, ON, GREEN, Goto(p, "led_off"))
       [] pc = "led_off" -> Led(p, OFF, BLUE, Return(stack[p], TRUE))
       [] pc = "handler" -> Led(p, ON, RED, Goto(p, "handler_led_off"))
       [] pc = "handler_led_off" -> Led(p, OFF, BLUE, Return(stack[p], FALSE))

\* get_manager() when no manager exists yet: the manager object is assigned,
\* then connect() runs on it.
get_manager ==
  /\ stack[Foreground] = <<>>
  /\ ~mgr.made
  /\ mgr' = [mgr EXCEPT !.made = TRUE]
  /\ stack' = [stack EXCEPT ![Foreground] = <<Frame("connect", "PyFingerprint")>>]
  /\ log' = <<>>
  /\ snap' = dev.templates
  /\ UNCHANGED <<sensorFinger, dev, hist, thread, threadInfo, continuous_thread,
                 stop_event, worker, stop_calls, emitted, smarthome, written, websocket, running>>

\* ------------------------------------------------------------ device faults
\* The program counters at which a frame calls the fingerprint library.
LibCalls ==
  {"readImage", "getTemplateCount", "getStorageCapacity", "convertImage",
   "convertImage1", "convertImage2", "searchTemplate", "createTemplate",
   "storeTemplate", "deleteTemplate", "clearDatabase"}

\* The program counters at which a frame sends an LED packet.
LedCalls ==
  {"led_blink", "led_on", "led_off", "full_led", "exists_led", "success_led",
   "success_led_off", "not_found_led", "not_found_led_off", "error_led",
   "handler", "handler_led_off"}

Faults == Cardinality({i \in 1..Len(log) : log[i][1] = "fault"})

\* Faults raised so far in the foreground operation, or in the iteration of
\* loop thread p.
FaultsOf(p) ==
  IF p = Foreground THEN Faults
  ELSE Cardinality({i \in 1..Len(emitted[p]) : emitted[p][i][1] = "fault"})

\* The record of a fault: for a loop thread, whether wait_finger_removed
\* catches it itself (1) or it reaches the loop's own try (0).
FaultMark(p, kind) ==
  <<"fault", kind,
    IF p = Foreground THEN Len(log)
    ELSE IF stack[p] # <<>> /\ Top(p).fn = "wait_finger_removed" /\ InTry(Top(p))
         THEN 1 ELSE 0>>

\* The fingerprint-library call process p is about to make raises.
LibFault(p) ==
  /\ stack[p] # <<>>
  /\ mgr.finger
  /\ Top(p).fn # "connect"
  /\ Top(p).pc \in LibCalls
  /\ FaultsOf(p) < MaxFaults
  /\ Apply(p, Raise(stack[p]), dev, FaultMark(p, 1))

\* The LED packet process p is about to send raises in send_command.
LedFault(p) ==
  /\ stack[p] # <<>>
  /\ mgr.ser
  /\ Top(p).fn # "_continuous_loop"
  /\ Top(p).pc \in LedCalls
  /\ Top(p).pc = "led_blink" => mgr.finger
  /\ FaultsOf(p) < MaxFaults
  /\ Apply(p, Raise(stack[p]), dev, FaultMark(p, 2))

\* ------------------------------------------------- continuous verification
loop_breakMutant(t) == Goto(t, "while")

\* `break` at the end of the loop's except block: the thread function ends.
loop_break(t) == Return(stack[t], 0)

\* len(active_connections) when the loop broadcasts: no client, or one.
Clients == {0, 1}

\* The action strings a fingerprint may carry: empty, the sentinel, a real one.
Actions == {"", "na", "on"}

\* No entry for a position in fingerprint_data.json.
NoEntry == "<no entry>"

\* get_fingerprint_by_position(position), then `fp.action if fp else None`.
get_fingerprint_by_position(position) ==
  IF metadata[position] = NoEntry THEN NoAction ELSE metadata[position]

HasActionMutant(action) == action \notin {NoAction, ""}

\* `action and action != "na"`
HasAction(action) == action \notin {NoAction, ""} /\ action # "na"

\* One call of the action executor, added to those process p made so far.
Executor(p, fn) == Append(executed[p], <<fn, Top(p).action>>)

statusMutant(pos) == "success"

\* `status = "success" if pos >= 0 else "failed"`
status(pos) == IF pos >= 0 THEN "success" ELSE "failed"

\* The message of one iteration: type, status, position, accuracy, and the
\* name, given here as the metadata entry it is read from (None without one).
msg(f) ==
  <<"continuous_verify", status(f.position),
    IF f.position >= 0 THEN f.position ELSE None,
    IF f.position >= 0 THEN f.accuracy ELSE None,
    f.fp>>

\* One iteration of the loop thread: poll, and with an image convert, search,
\* broadcast the event and wait for the finger to leave.
continuous_loop(t) ==
  /\ At(t, "_continuous_loop")
  /\ LET f == Top(t)
         pc == f.pc
     IN
     CASE pc = "while" ->
            IF stop_event THEN Apply(t, Return(stack[t], 1), dev, NoEvent)
            ELSE ApplyX(t, GotoFrame(t, Frame("_continuous_loop", "readImage")), dev,
                        <<"iteration", 0, 0>>, mgr, <<>>)
       [] pc = "readImage" ->
            IF ~mgr.finger THEN Apply(t, Raise(stack[t]), dev, FaultMark(t, 1))
            ELSE IF sensorFinger # NoFinger
                 THEN Apply(t, Goto(t, "convertImage"), readImage(dev, sensorFinger),
                            NoEvent)
                 ELSE Apply(t, Goto(t, "while"), dev, NoEvent)
       [] pc = "convertImage" ->
            Apply(t, Goto(t, "searchTemplate"), convertImage(dev, 1), NoEvent)
       [] pc = "searchTemplate" ->
            LET r == searchTemplate(dev)
                pos == r[1]
                action == IF pos >= 0 THEN get_fingerprint_by_position(pos) ELSE NoAction
                fp == IF pos >= 0 /\ metadata[pos] # NoEntry THEN pos ELSE None
            IN
            Apply(t, GotoFrame(t, [f EXCEPT !.position = pos, !.accuracy = r[2],
                                            !.action = action, !.fp = fp,
                                            !.pc = IF pos >= 0 /\ HasAction(action)
                                                   THEN "control_smart_plug"
                                                   ELSE "broadcast"]), dev, NoEvent)
       [] pc = "control_smart_plug" ->
            ApplyX(t, Goto(t, "control_smartphone_light"), dev, NoEvent, mgr,
                   Executor(t, "control_smart_plug"))
       [] pc = "control_smartphone_light" ->
            ApplyX(t, Goto(t, "broadcast"), dev, NoEvent, mgr,
                   Executor(t, "control_smartphone_light"))
       [] pc = "broadcast" ->
            \E clients \in Clients :
              Apply(t, Goto(t, IF clients = 0 THEN "wait_finger_removed" ELSE "send_text"),
                    dev, msg(f))
       [] pc = "send_text" -> FALSE
       [] pc = "wait_finger_removed" ->
            Apply(t, Call(t, "wait_finger_removed", "led_blink"), dev, NoEvent)
       [] pc = "handler" ->
            \E clients \in Clients :
              Apply(t, IF clients = 0 THEN loop_break(t) ELSE Goto(t, "error_send_text"),
                    dev, <<"error", 0, 0>>)
       [] pc = "error_send_text" -> FALSE

\* The consumer completes the delivery the loop thread waits for: send_text
\* returns, broadcast and asyncio.run return, the loop goes on.
Deliver(t) ==
  /\ At(t, "_continuous_loop")
  /\ Top(t).pc \in {"send_text", "error_send_text"}
  /\ Apply(t, IF Top(t).pc = "send_text" THEN Goto(t, "wait_finger_removed")
                ELSE loop_break(t), dev, NoEvent)

is_alive(t) == t # 0 /\ thread[t] = "alive"

\* A pool worker outside start_continuous: what its last call returned, whether
\* a loop thread was alive when that call began, the thread it started.
Idle(ret, alive, t) ==
  [pc |-> "idle", ret |-> ret, aliveAtCall |-> alive, stopped |-> FALSE, t |-> t]

clearMutant(event) == event

\* `_stop_event.clear()`
clear(event) == FALSE

\* start_continuous on pool worker w, statement by statement.
start_continuous(w) ==
  LET me == worker[w]
      anyAlive == \E t \in Threads : thread[t] = "alive"
  IN
  CASE me.pc = "idle" ->
         /\ worker' = [worker EXCEPT ![w] =
                         IF is_alive(continuous_thread) THEN Idle("False", anyAlive, 0)
                         ELSE [Idle("none", anyAlive, 0) EXCEPT !.pc = "clear"]]
         /\ UNCHANGED <<sensorFinger, dev, mgr, stack, log, hist, snap, thread,
                        threadInfo, continuous_thread, stop_event, stop_calls, emitted,
                        smarthome, written, websocket, running>>
    [] me.pc = "clear" ->
         /\ stop_event' = clear(stop_event)
         /\ worker' = [worker EXCEPT ![w].pc = "get_manager"]
         /\ UNCHANGED <<sensorFinger, dev, mgr, stack, log, hist, snap, thread,
                        threadInfo, continuous_thread, stop_calls, emitted, smarthome,
                        written, websocket, running>>
    [] me.pc = "get_manager" ->
         /\ mgr' = IF mgr.made THEN mgr ELSE Connected
         /\ dev' = IF mgr.made THEN dev ELSE connected(dev)
         /\ worker' = [worker EXCEPT ![w].pc = "Thread"]
         /\ UNCHANGED <<sensorFinger, stack, log, hist, snap, thread, threadInfo,
                        continuous_thread, stop_event, stop_calls, emitted, smarthome,
                        written, websocket, running>>
    [] me.pc = "Thread" ->
         /\ \E t \in Threads :
              /\ thread[t] = "unborn"
              /\ \A u \in Threads : thread[u] = "unborn" => t <= u
              /\ continuous_thread' = t
              /\ thread' = [thread EXCEPT ![t] = "created"]
              /\ worker' = [worker EXCEPT ![w].pc = "start", ![w].t = t]
         /\ UNCHANGED <<sensorFinger, dev, mgr, stack, log, hist, snap, threadInfo,
                        stop_event, stop_calls, emitted, smarthome, written, websocket, running>>
    [] me.pc = "start" ->
         /\ thread' = [thread EXCEPT ![me.t] = "alive"]
         /\ stack' = [stack EXCEPT ![me.t] = <<Frame("_continuous_loop", "while")>>]
         /\ threadInfo' = [threadInfo EXCEPT ![me.t] = [stopped |-> me.stopped]]
         /\ worker' = [worker EXCEPT ![w] = Idle("True", me.aliveAtCall, me.t)]
         /\ UNCHANGED <<sensorFinger, dev, mgr, log, hist, snap, continuous_thread,
                        stop_event, stop_calls, emitted, smarthome, written, websocket, running>>

\* stop_continuous: the route handler runs on the event loop, so only while no
\* manager operation occupies it.
stop_continuous ==
  /\ stack[Foreground] = <<>>
  /\ stop_calls.n < MaxStops
  /\ stop_event' = TRUE
  /\ stop_calls' = [n |-> stop_calls.n + 1, ret |-> "True"]
  /\ worker' = [w \in Workers |->
                  IF worker[w].pc = "idle" THEN worker[w]
                  ELSE [worker[w] EXCEPT !.stopped = TRUE]]
  /\ threadInfo' = [t \in Threads |-> [stopped |-> TRUE]]
  /\ UNCHANGED <<sensorFinger, dev, mgr, stack, log, hist, snap, thread,
                 continuous_thread, emitted, smarthome, written, websocket, running>>

\* --------------------------------------------------- foreground requests
Requests ==
  {<<op, None>> : op \in {"enroll_finger", "verify_finger", "delete_finger",
                          "get_template_count", "clear_database"}}
  \cup {<<"delete_finger", position>> : position \in 0..Capacity}

Entry(op) ==
  CASE op = "enroll_finger" -> "getTemplateCount"
    [] op = "verify_finger" -> "wait_for_finger"
    [] op = "delete_finger" -> "enter"
    [] op = "get_template_count" -> "getTemplateCount"
    [] op = "clear_database" -> "clearDatabase"
    [] op = "verify_fingerprint_task" -> "verify_finger"
    [] op = "enroll_fingerprint_task" -> "broadcast_enrolling"
    [] op = "delete_fingerprint_task" -> "broadcast_deleting"
    [] op = "clear_database_task" -> "broadcast_clearing"
    [] op = "get_count" -> "get_template_count"

\* A request handler or background task on the event loop: get_manager(),
\* then the manager operation, which runs on the event loop until it returns.
StartOp(op, position) ==
  /\ stack[Foreground] = <<>>
  /\ mgr' = IF mgr.made THEN mgr ELSE Connected
  /\ dev' = IF mgr.made THEN dev ELSE connected(dev)
  /\ stack' = [stack EXCEPT ![Foreground] =
                 <<[Frame(op, Entry(op)) EXCEPT !.position = position]>>]
  /\ log' = <<>>
  /\ snap' = dev.templates
  /\ UNCHANGED <<sensorFinger, hist, thread, threadInfo, continuous_thread,
                 stop_event, worker, stop_calls, emitted, smarthome, written, websocket, running>>

\* verify_fingerprint_task: the manager's verify_finger, then on success the
\* metadata lookup, the action executor and the result broadcast.
verify_fingerprint_task(p) ==
  /\ At(p, "verify_fingerprint_task")
  /\ LET f == Top(p)
         pc == f.pc
     IN
     CASE pc = "verify_finger" ->
            ApplyX(p, Call(p, "verify_finger", "wait_for_finger"), dev, NoEvent, mgr, <<>>)
       [] pc = "get_fingerprint_by_position" ->
            LET action == get_fingerprint_by_position(f.position) IN
            Apply(p, GotoFrame(p, [f EXCEPT !.action = action,
                                            !.pc = IF HasAction(action)
                                                   THEN "control_smart_plug"
                                                   ELSE "broadcast_success"]),
                  dev, NoEvent)
       [] pc = "control_smart_plug" ->
            ApplyX(p, Goto(p, "control_smartphone_light"), dev, NoEvent, mgr,
                   Executor(p, "control_smart_plug"))
       [] pc = "control_smartphone_light" ->
            ApplyX(p, Goto(p, "broadcast_success"), dev, NoEvent, mgr,
                   Executor(p, "control_smartphone_light"))
       [] pc = "broadcast_success" ->
            Apply(p, Return(stack[p], <<TRUE, f.position, f.accuracy>>), dev, NoEvent)
       [] pc = "broadcast_failed" ->
            Apply(p, Return(stack[p], <<FALSE, None, None>>), dev, NoEvent)
       [] pc = "handler" ->
            Apply(p, Return(stack[p], <<FALSE, None, None>>), dev, NoEvent)

\* save_fingerprint_data(fingerprints): the entries passed in are merged into
\* those of the file, an entry without action keeping the action on file; an
\* entry on file that is not passed in stays.
save_fingerprint_data(fingerprints) ==
  [position \in Positions |->
     IF fingerprints[position] = NoEntry THEN metadata[position]
     ELSE IF fingerprints[position] \in {NoAction, ""}
             /\ metadata[position] \notin {NoEntry, NoAction, ""}
          THEN metadata[position]
          ELSE fingerprints[position]]

\* add_fingerprint(position, name): an entry on file gets `action = None`, a
\* missing one is appended without action; then the list is saved.
add_fingerprint(position) ==
  IF position \in Positions
  THEN save_fingerprint_data([metadata EXCEPT ![position] = NoAction])
  ELSE metadata

\* remove_fingerprint(position): the list without the entry is saved when the
\* entry was on file.
remove_fingerprint(position) ==
  IF position \in Positions /\ metadata[position] # NoEntry
  THEN save_fingerprint_data([metadata EXCEPT ![position] = NoEntry])
  ELSE metadata

\* clear_all_fingerprints(): the empty list is saved.
clear_all_fingerprints == save_fingerprint_data([position \in Positions |-> NoEntry])

\* PUT /fingerprints/{position}/action: update_fingerprint_action on an entry
\* on file, add_fingerprint(position, action=...) otherwise; both save the
\* list with the new action.  A route handler, so it runs while no manager
\* operation occupies the event loop.  Only a position that holds a template
\* is ever looked up, so only those are labelled here.
set_fingerprint_action ==
  /\ stack[Foreground] = <<>>
  /\ \E position \in Positions, action \in Actions :
       /\ dev.templates[position] # NoFinger
       /\ metadata' = save_fingerprint_data([metadata EXCEPT ![position] = action])
  /\ UNCHANGED <<sensorFinger, dev, mgr, stack, log, hist, snap, thread, threadInfo,
                 continuous_thread, stop_event, worker, stop_calls, emitted, executed,
                 written, websocket, running>>

\* ------------------------------------------------- tasks on the event loop
\* The manager operations a task or handler calls.
ManagerOps ==
  {"enroll_finger", "verify_finger", "delete_finger", "clear_database",
   "get_template_count"}

Tasks ==
  {"enroll_fingerprint_task", "delete_fingerprint_task", "clear_database_task", "get_count"}

\* Coroutine c may take its next statement: the event loop runs it, or runs
\* nothing and c is the coroutine it picks.
Runs(c) == stack[c] # <<>> /\ running \in {c, None}

\* A statement of task c itself: its frame moves on, the metadata file may
\* change, and r holds the event loop afterwards (None after an await).
TaskStep(c, pc, md, r) ==
  /\ stack' = [stack EXCEPT ![c] = <<[Top(c) EXCEPT !.pc = pc]>>]
  /\ metadata' = md
  /\ running' = r
  /\ UNCHANGED <<sensorFinger, dev, mgr, log, hist, snap, thread, threadInfo,
                 continuous_thread, stop_event, worker, stop_calls, emitted, executed,
                 written, websocket>>

\* `await broadcast_message(...)`: the coroutine is suspended and the event
\* loop is free to run another one.
Await(c) == None

BlockingMutant(c) == None

\* `manager.enroll_finger()` and the like are plain calls of a coroutine: the
\* event loop thread stays inside the call, no other coroutine runs.
Blocking(c) == c

\* Task c calls a manager operation.
TaskCall(c, op, position) ==
  /\ stack' = [stack EXCEPT ![c] =
                 <<[Frame(op, Entry(op)) EXCEPT !.position = position],
                   [Top(c) EXCEPT !.pc = op]>>]
  /\ running' = Blocking(c)
  /\ log' = IF c = Foreground THEN <<>> ELSE log
  /\ snap' = IF c = Foreground THEN dev.templates ELSE snap
  /\ UNCHANGED <<sensorFinger, dev, mgr, hist, thread, threadInfo, continuous_thread,
                 stop_event, worker, stop_calls, emitted, smarthome, written, websocket>>

\* Task c returns: its result joins the finished operations and the event
\* loop is free.
TaskReturn(c) ==
  /\ stack' = [stack EXCEPT ![c] = <<>>]
  /\ running' = None
  /\ hist' = Append(hist, [op |-> Top(c).fn, val |-> <<Top(c).success, Top(c).position>>,
                           raised |-> FALSE, pre |-> snap, db |-> dev.templates])
  /\ UNCHANGED <<sensorFinger, dev, mgr, log, snap, thread, threadInfo,
                 continuous_thread, stop_event, worker, stop_calls, emitted, smarthome,
                 written, websocket>>

\* The part every task shares: the task frame is on top and c may run.
InTask(c, task) == Runs(c) /\ Len(stack[c]) = 1 /\ Top(c).fn = task

enroll_fingerprint_task(c) ==
  /\ InTask(c, "enroll_fingerprint_task")
  /\ LET f == Top(c) IN
     CASE f.pc = "broadcast_enrolling" -> TaskStep(c, "enroll_finger", metadata, Await(c))
       [] f.pc = "enroll_finger" -> TaskCall(c, "enroll_finger", None)
       [] f.pc = "add_fingerprint" ->
            TaskStep(c, "return",
                     IF f.success THEN add_fingerprint(f.position) ELSE metadata, Await(c))
       [] f.pc \in {"return", "handler"} -> TaskReturn(c)

delete_fingerprint_task(c) ==
  /\ InTask(c, "delete_fingerprint_task")
  /\ LET f == Top(c) IN
     CASE f.pc = "broadcast_deleting" ->
            TaskStep(c, IF f.position # None THEN "delete_finger" ELSE "verify_finger",
                     metadata, Await(c))
       [] f.pc = "verify_finger" -> TaskCall(c, "verify_finger", None)
       [] f.pc = "broadcast_found" -> TaskStep(c, "delete_finger", metadata, Await(c))
       [] f.pc = "broadcast_not_found" -> TaskStep(c, "return", metadata, Await(c))
       [] f.pc = "delete_finger" -> TaskCall(c, "delete_finger", f.position)
       [] f.pc = "remove_fingerprint" ->
            TaskStep(c, "return",
                     IF f.success THEN remove_fingerprint(f.position) ELSE metadata,
                     Await(c))
       [] f.pc \in {"return", "handler"} -> TaskReturn(c)

clear_database_task(c) ==
  /\ InTask(c, "clear_database_task")
  /\ LET f == Top(c) IN
     CASE f.pc = "broadcast_clearing" -> TaskStep(c, "clear_database", metadata, Await(c))
       [] f.pc = "clear_database" -> TaskCall(c, "clear_database", None)
       [] f.pc = "clear_all_fingerprints" ->
            TaskStep(c, "return",
                     IF f.success THEN clear_all_fingerprints ELSE metadata, Await(c))
       [] f.pc \in {"return", "handler"} -> TaskReturn(c)

\* GET /count: the handler calls the manager and answers, with no await.
get_count(c) ==
  /\ InTask(c, "get_count")
  /\ LET f == Top(c) IN
     CASE f.pc = "get_template_count" -> TaskCall(c, "get_template_count", None)
       [] f.pc \in {"return", "handler"} -> TaskReturn(c)

\* The requests that start a task: POST /enroll, /delete, /delete/{position},
\* /clear, GET /count.
TaskRequests ==
  {<<"enroll_fingerprint_task", None>>, <<"delete_fingerprint_task", None>>,
   <<"clear_database_task", None>>, <<"get_count", None>>}
  \cup {<<"delete_fingerprint_task", position>> : position \in 0..Capacity}

\* The event loop, running nothing, starts a task as coroutine c: the task's
\* get_manager() and its first statement follow.
StartTask(c, task, position) ==
  /\ stack[c] = <<>>
  /\ running = None
  /\ running' = c
  /\ mgr' = IF mgr.made THEN mgr ELSE Connected
  /\ dev' = IF mgr.made THEN dev ELSE connected(dev)
  /\ stack' = [stack EXCEPT ![c] =
                 <<[Frame(task, Entry(task)) EXCEPT !.position = position]>>]
  /\ UNCHANGED <<sensorFinger, log, hist, snap, thread, threadInfo, continuous_thread,
                 stop_event, worker, stop_calls, emitted, smarthome, written, websocket>>

\* ---------------------------------------------------------- specification
\* The sensor's storage is nonvolatile: a run starts with what earlier runs
\* left there, any content in which no finger is enrolled twice.
Databases ==
  {db \in [Positions -> 0..NumFingers] :
     \A p, q \in Positions : db[p] # NoFinger /\ db[p] = db[q] => p = q}

Init ==
  /\ sensorFinger = NoFinger
  /\ \E db \in Databases :
       dev = [templates |-> db, image |-> NoFinger, charbuf1 |-> NoFinger,
              charbuf2 |-> NoFinger, led |-> <<OFF, BLUE>>]
  /\ mgr = [made |-> FALSE, finger |-> FALSE, ser |-> FALSE]
  /\ stack = [p \in Procs |-> <<>>]
  /\ log = <<>>
  /\ hist = <<>>
  /\ snap = dev.templates
  /\ thread = [t \in Threads |-> "unborn"]
  /\ threadInfo = [t \in Threads |-> [stopped |-> FALSE]]
  /\ continuous_thread = 0
  /\ stop_event = FALSE
  /\ worker = [w \in Workers |-> Idle("none", FALSE, 0)]
  /\ stop_calls = [n |-> 0, ret |-> "none"]
  /\ emitted = [t \in Threads |-> <<>>]
  /\ metadata = [position \in Positions |-> NoEntry]
  /\ executed = [p \in Procs |-> <<>>]
  /\ written = [n |-> 0, call |-> <<>>, instruction |-> 0, parameter |-> <<0, 0, 0, 0>>,
                command |-> <<>>]
  /\ running = None
  /\ websocket = [active_connections |-> <<>>, accepted |-> {}, closed |-> {},
                  i |-> None, connection |-> None, listed |-> {},
                  received |-> [socket \in Sockets |-> 0], calls |-> 0]

\* ------------------------------------------------------------------ claims
FgIdle == stack[Foreground] = <<>>

Last == hist[Len(hist)]

\* The operation the foreground log belongs to: the running one, else the
\* last finished one.
CurOp ==
  IF ~FgIdle THEN BottomFn(Foreground) ELSE IF hist # <<>> THEN Last.op ELSE ""

Finished(op) == FgIdle /\ hist # <<>> /\ Last.op = op

Issued(name) == {i \in 1..Len(log) : log[i][1] = name}

Count(db) == Cardinality({p \in Positions : db[p] # NoFinger})

\* The enrollment in the log read a template count at or above the capacity.
ReadFull ==
  /\ CurOp = "enroll_finger"
  /\ Len(log) > 0
  /\ log[1][1] = "getTemplateCount"
  /\ log[1][2] >= Capacity

\* C2: an enroll_finger call that reads a template count >= capacity issues
\* no finger wait, no createTemplate and no storeTemplate, leaves the template
\* database unchanged, and returns (False, None) after one LED on/red command.
C2_FullEnrollFails ==
  ReadFull =>
    /\ Issued("wait_for_finger") = {} /\ Issued("readImage") = {}
    /\ Issued("createTemplate") = {} /\ Issued("storeTemplate") = {}
    /\ dev.templates = snap
    /\ FgIdle =>
         /\ Last.val = <<FALSE, None>> /\ ~Last.raised
         /\ log[Len(log)] = <<"led", ON, RED>>
         /\ Last.db = Last.pre

C2_Witness ==
  /\ ReadFull /\ FgIdle
  /\ Last.val = <<FALSE, None>>
  /\ Issued("led") # {}

\* Finished operation i enrolled finger f at position p, and no delete_finger
\* or clear_database was served between it and the last operation.
EnrolledBefore(i, f, p) ==
  /\ hist[i].op = "enroll_finger"
  /\ ~hist[i].raised
  /\ hist[i].val = <<TRUE, p>>
  /\ hist[i].db[p] = f
  /\ \A k \in (i + 1)..(Len(hist) - 1) :
       hist[k].op \notin {"delete_finger", "clear_database"}

\* Every scan of the operation in the log was of finger f.
ScannedOnly(f) == \A j \in Issued("convertImage") : log[j][3] = f

RejectedAsDuplicate(p) ==
  /\ ~Last.raised
  /\ Last.val = <<FALSE, p>>
  /\ Issued("storeTemplate") = {}
  /\ Count(Last.db) = Count(Last.pre)

\* C3 as stated: once enroll_finger succeeded for a finger at position p, a
\* later enroll_finger with the same finger, no delete or clear in between,
\* returns (False, p), stores nothing and leaves the template count unchanged.
C3_Original ==
  \A i \in 1..(Len(hist) - 1), f \in Fingers, p \in Positions :
    (Finished("enroll_finger") /\ EnrolledBefore(i, f, p) /\ ScannedOnly(f))
      => RejectedAsDuplicate(p)

\* C3 amended: once enroll_finger succeeded for a finger at position p, a
\* later enroll_finger with the same finger that starts with that template
\* still in slot p and with fewer templates than the capacity returns
\* (False, p), stores nothing and leaves the count unchanged; one that starts
\* with the database full returns (False, None) without scanning.
C3_DuplicateRejected ==
  \A i \in 1..(Len(hist) - 1), f \in Fingers, p \in Positions :
    (Finished("enroll_finger") /\ EnrolledBefore(i, f, p) /\ ScannedOnly(f)
       /\ Last.pre[p] = f)
      => IF Count(Last.pre) < Capacity
         THEN RejectedAsDuplicate(p) /\ Cardinality(Issued("convertImage")) = 2
         ELSE ~Last.raised /\ Last.val = <<FALSE, None>> /\ Issued("convertImage") = {}

C3_Witness ==
  /\ Len(hist) >= 2 /\ Finished("enroll_finger")
  /\ \E f \in Fingers, p \in Positions :
       /\ EnrolledBefore(Len(hist) - 1, f, p)
       /\ ScannedOnly(f) /\ Cardinality(Issued("convertImage")) = 2
       /\ Last.val = <<FALSE, p>>
       /\ p > 0

\* C4: every storeTemplate of an enroll_finger call comes after a
\* searchTemplate of the same call that returned a negative position, and a
\* call whose search found a match neither stores nor returns success.
C4_StoreAfterFailedSearch ==
  CurOp = "enroll_finger" =>
    /\ \A i \in Issued("storeTemplate") :
         \E j \in Issued("searchTemplate") : j < i /\ log[j][2] < 0
    /\ (\E j \in Issued("searchTemplate") : log[j][2] >= 0) =>
         /\ Issued("storeTemplate") = {}
         /\ FgIdle => ~Last.val[1]
    /\ (FgIdle /\ ~Last.raised /\ Last.val[1]) =>
         \E j \in Issued("searchTemplate") : log[j][2] < 0

C4_Witness ==
  /\ Finished("enroll_finger")
  /\ Last.val[1]
  /\ Issued("storeTemplate") # {}
  /\ Count(Last.pre) > 0

\* The running or last delete_finger call was made without a position.
DeleteByScan ==
  /\ CurOp = "delete_finger"
  /\ Len(log) > 0
  /\ log[1][1] = "verify_finger"

\* C5: delete_finger(None) is verify_finger() followed by
\* delete_finger(found): after a successful verify at position p its only
\* deleteTemplate is deleteTemplate(p) and it returns what the device answered;
\* after a failed verify it issues no deleteTemplate, leaves the database
\* unchanged and returns False.
C5_DeleteByScan ==
  DeleteByScan =>
    /\ \A j \in Issued("searchTemplate") :
         IF log[j][2] >= 0
         THEN /\ \A i \in Issued("deleteTemplate") : j < i /\ log[i][2] = log[j][2]
              /\ FgIdle =>
                   /\ Cardinality(Issued("deleteTemplate")) = 1
                   /\ \A i \in Issued("deleteTemplate") :
                        /\ Last.val = (log[i][3] = 1)
                        /\ Last.db = IF log[i][3] = 1
                                     THEN [Last.pre EXCEPT ![log[j][2]] = NoFinger]
                                     ELSE Last.pre
         ELSE /\ Issued("deleteTemplate") = {}
              /\ dev.templates = snap
              /\ FgIdle => Last.val = FALSE
    /\ Issued("deleteTemplate") # {} => Issued("searchTemplate") # {}
    /\ FgIdle => ~Last.raised /\ Cardinality(Issued("searchTemplate")) = 1

C5_Witness ==
  /\ DeleteByScan /\ FgIdle
  /\ Last.val = TRUE
  /\ \E i \in Issued("deleteTemplate") : log[i][2] = 1 /\ Last.pre[1] # NoFinger
  /\ Last.db # Last.pre

\* C6: clear_database returns True and leaves no template, from any database
\* content, so also as the second of two consecutive calls; a
\* get_template_count that follows a clear returns 0.
C6_ClearIdempotent ==
  \A i \in 1..Len(hist) :
    hist[i].op = "clear_database" =>
      /\ hist[i].val = TRUE /\ ~hist[i].raised
      /\ Count(hist[i].db) = 0
      /\ (i < Len(hist) /\ hist[i + 1].op = "get_template_count") => hist[i + 1].val = 0

C6_Witness ==
  /\ Len(hist) >= 2
  /\ hist[1].op = "clear_database" /\ hist[2].op = "clear_database"
  /\ Count(hist[1].pre) = Capacity
  /\ hist[1].val = TRUE /\ hist[2].val = TRUE
  /\ getTemplateCount(dev) = 0

\* The foreground alone: requests served one after the other on the event
\* loop, no continuous loop started.
Next ==
  \/ PlaceFinger
  \/ RemoveFinger
  \/ \E r \in Requests : Len(hist) < MaxRequests /\ StartOp(r[1], r[2])
  \/ wait_for_finger(Foreground)
  \/ wait_finger_removed(Foreground)
  \/ enroll_finger(Foreground)
  \/ verify_finger(Foreground)
  \/ delete_finger(Foreground)
  \/ get_template_count(Foreground)
  \/ clear_database(Foreground)

Spec == Init /\ [][Next]_vars

\* One finger enrolled in slot 0, the other slots free.
InitEnrolled == Init /\ dev.templates = [p \in Positions |-> IF p = 0 THEN 1 ELSE NoFinger]

\* The continuous loop with its start and stop requests: start_continuous on
\* the pool workers, stop_continuous on the event loop, the loop threads.
NextLoop ==
  \/ PlaceFinger
  \/ RemoveFinger
  \/ \E t \in Threads : wait_finger_removed(t)
  \/ \E t \in Threads : continuous_loop(t)
  \/ \E t \in Threads : Deliver(t)
  \/ \E w \in Workers : start_continuous(w)
  \/ stop_continuous

SpecLoop == InitEnrolled /\ [][NextLoop]_vars

\* One enrollment request served while a continuous loop runs.
NextMix ==
  \/ PlaceFinger
  \/ RemoveFinger
  \/ hist = <<>> /\ StartOp("enroll_finger", None)
  \/ \E p \in Procs : wait_for_finger(p)
  \/ \E p \in Procs : wait_finger_removed(p)
  \/ enroll_finger(Foreground)
  \/ \E t \in Threads : continuous_loop(t)
  \/ \E t \in Threads : Deliver(t)
  \/ start_continuous(1)

SpecMix == InitEnrolled /\ [][NextMix]_vars

\* The foreground operation has issued a device command and has not returned.
ForegroundBusy == ~FgIdle /\ log # <<>>

\* Loop thread t captured an image and has not finished the iteration.
MidIteration(t) ==
  /\ stack[t] # <<>>
  /\ BottomFn(t) = "_continuous_loop"
  /\ stack[t][Len(stack[t])].pc \in
       {"convertImage", "searchTemplate", "broadcast", "send_text",
        "wait_finger_removed"}

\* C1: the continuous loop and a foreground operation are never both in the
\* middle of issuing commands on the sensor connection.
C1_NoInterleaving == ~(ForegroundBusy /\ \E t \in Threads : MidIteration(t))

\* C7: under any interleaving of start_continuous and stop_continuous calls at
\* most one _continuous_loop thread is alive.
C7_AtMostOneLoop == Cardinality({t \in Threads : thread[t] = "alive"}) <= 1

\* C8: a start_continuous call that begins while a loop thread is alive
\* returns False without getting past its check (no thread, no new
\* _continuous_thread, stop event untouched), and a call returns True only
\* when it has started a loop thread.
C8_StartWhileAlive ==
  \A w \in Workers :
    /\ worker[w].aliveAtCall => worker[w].pc = "idle" /\ worker[w].ret = "False"
    /\ worker[w].ret = "True" =>
         worker[w].t # 0 /\ thread[worker[w].t] \in {"alive", "stopped", "crashed"}

\* C9: stop_continuous returns True and changes nothing but the stop event,
\* also when no loop runs and when called twice in a row, and a loop started by
\* a later start_continuous keeps running: a loop thread ends only after a
\* stop_continuous call made since the start_continuous call that spawned it
\* began.
C9_StopIsHarmless ==
  /\ [](\A t \in Threads : thread[t] \in {"stopped", "crashed"} => threadInfo[t].stopped)
  /\ [][stop_calls'.n = stop_calls.n + 1 =>
          /\ stop_calls'.ret = "True"
          /\ stop_event'
          /\ UNCHANGED <<sensorFinger, dev, mgr, stack, log, hist, thread,
                         continuous_thread, emitted, smarthome, written, websocket, running>>]_vars

\* Two stop_continuous calls with no loop running, then the first
\* start_continuous call ever made, whose loop thread is past its stop check.
C9_Witness ==
  /\ stop_calls.n >= 2 /\ stop_calls.ret = "True"
  /\ thread[1] = "alive" /\ ~threadInfo[1].stopped
  /\ \A t \in Threads \ {1} : thread[t] = "unborn"
  /\ stack[1] # <<>> /\ Top(1).pc = "readImage"
  /\ \E w \in Workers :
       /\ worker[w] = Idle("True", FALSE, 1)
       /\ \A v \in Workers \ {w} : worker[v] = Idle("none", FALSE, 0)

\* The foreground with device faults: connect() call by call, any
\* fingerprint-library call and any LED packet may raise.
NextFault ==
  \/ PlaceFinger
  \/ RemoveFinger
  \/ get_manager
  \/ \E r \in Requests : mgr.made /\ Len(hist) < MaxRequests /\ StartOp(r[1], r[2])
  \/ connect(Foreground)
  \/ wait_for_finger(Foreground)
  \/ wait_finger_removed(Foreground)
  \/ enroll_finger(Foreground)
  \/ verify_finger(Foreground)
  \/ delete_finger(Foreground)
  \/ get_template_count(Foreground)
  \/ clear_database(Foreground)
  \/ LibFault(Foreground)
  \/ LedFault(Foreground)

SpecFault == Init /\ [][NextFault]_vars

\* C10: no fault of a device call escapes connect, enroll_finger,
\* verify_finger, delete_finger, get_template_count or clear_database: every
\* finished call returned a value.
C10_NoFaultEscapes == \A i \in 1..Len(hist) : ~hist[i].raised

\* Every fingerprint-library call of the operation in the log succeeded.
LibOk ==
  \A i \in 1..Len(log) :
    /\ ~(log[i][1] = "fault" /\ log[i][2] = 1)
    /\ ~(log[i][1] = "createTemplate" /\ log[i][2] = 0)
    /\ ~(log[i][1] = "deleteTemplate" /\ log[i][3] = -1)

\* What the operation in the log returns when all its LED commands succeed,
\* given what its library calls answered.
ResultOf(op) ==
  CASE op = "enroll_finger" ->
         IF \E i \in Issued("storeTemplate") : TRUE
         THEN <<TRUE, log[CHOOSE i \in Issued("storeTemplate") : TRUE][2]>>
         ELSE IF \E i \in Issued("searchTemplate") : log[i][2] >= 0
              THEN <<FALSE, log[CHOOSE i \in Issued("searchTemplate") : TRUE][2]>>
              ELSE <<FALSE, None>>
    [] op = "verify_finger" ->
         IF \E i \in Issued("searchTemplate") : log[i][2] >= 0
         THEN LET i == CHOOSE j \in Issued("searchTemplate") : TRUE
              IN <<TRUE, log[i][2], log[i][3]>>
         ELSE <<FALSE, None, None>>
    [] op = "delete_finger" -> \E i \in Issued("deleteTemplate") : log[i][3] = 1
    [] op = "clear_database" -> Issued("clearDatabase") # {}

LedOps == {"enroll_finger", "verify_finger", "delete_finger", "clear_database"}

\* The finished operation went as far as its state-changing library call.
Committed ==
  \/ Issued("storeTemplate") # {}
  \/ Issued("clearDatabase") # {}
  \/ \E i \in Issued("deleteTemplate") : log[i][3] = 1
  \/ (CurOp = "verify_finger" /\ Issued("searchTemplate") # {})

\* C11: LED feedback is advisory: an operation whose fingerprint-library calls
\* all succeeded and that reached its decisive library call returns the result
\* those calls determine, whether or not an LED command failed.
C11_LedAdvisory ==
  (FgIdle /\ hist # <<>> /\ Last.op \in LedOps /\ LibOk /\ Committed)
    => ~Last.raised /\ Last.val = ResultOf(Last.op)

\* The connect call in the log opened both links and had its password accepted.
LinkUp ==
  /\ \E i \in Issued("PyFingerprint") : log[i][2] = 1
  /\ \E i \in Issued("led_connect") : log[i][2] = 1
  /\ \E i \in Issued("verifyPassword") : log[i][2] = 1

\* The LED commands of the operation in the log, in order.
LedLog == SelectSeq(log, LAMBDA ev : ev[1] = "led")

\* C12: connect returns True exactly when both links open and the password is
\* accepted, with the LED green then off; on every failure it returns False
\* without raising, with the LED red then off.
C12_Connect ==
  (FgIdle /\ hist # <<>> /\ Last.op = "connect" /\ Faults = 0)
    => /\ ~Last.raised
       /\ Last.val = LinkUp
       /\ LedLog = <<<<"led", ON, IF LinkUp THEN GREEN ELSE RED>>, <<"led", OFF, BLUE>>>>

\* Index i of the log is followed by a completed wait_finger_removed: its
\* call, a poll that saw no finger, and the LED switched off, in that order.
FingerRemovedAfter(i) ==
  \E w \in Issued("wait_finger_removed") :
    /\ i < w
    /\ \E k \in (w + 1)..(Len(log) - 1) :
         /\ log[k] = <<"readImage", 0, 0>>
         /\ log[Len(log)] = <<"led", OFF, BLUE>>

\* C13: verify_finger returns (True, position, accuracy) exactly when
\* searchTemplate returned a position >= 0 and (False, None, None) when it
\* returned a negative one, and on both paths the LED flash (green on, or red
\* blink, then off) is followed by wait_finger_removed before the call returns.
C13_VerifyResult ==
  Finished("verify_finger") =>
    /\ ~Last.raised
    /\ Cardinality(Issued("searchTemplate")) = 1
    /\ \A s \in Issued("searchTemplate") :
         /\ Last.val = IF log[s][2] >= 0 THEN <<TRUE, log[s][2], log[s][3]>>
                       ELSE <<FALSE, None, None>>
         /\ log[s + 1] = IF log[s][2] >= 0 THEN <<"led", ON, GREEN>>
                         ELSE <<"led", BLINK, RED>>
         /\ log[s + 2] = <<"led", OFF, BLUE>>
         /\ FingerRemovedAfter(s + 2)
    /\ Last.db = Last.pre

C13_Witness ==
  /\ Finished("verify_finger")
  /\ Last.val = <<FALSE, None, None>>
  /\ \E s \in Issued("searchTemplate") : log[s][2] < 0 /\ FingerRemovedAfter(s + 2)
  /\ \E k \in 1..Len(log) : log[k] = <<"readImage", 1, 0>>

\* The continuous loop with device faults: any fingerprint-library call and
\* any LED packet of a loop thread may raise.
NextLoopFault ==
  \/ PlaceFinger
  \/ RemoveFinger
  \/ \E t \in Threads : wait_finger_removed(t)
  \/ \E t \in Threads : continuous_loop(t)
  \/ \E t \in Threads : Deliver(t)
  \/ start_continuous(1)
  \/ \E t \in Threads : LibFault(t)
  \/ \E t \in Threads : LedFault(t)

SpecLoopFault == InitEnrolled /\ [][NextLoopFault]_vars

\* Loop thread t is between iterations, or has ended.
IterationOver(t) ==
  /\ thread[t] \in {"alive", "stopped", "crashed"}
  /\ stack[t] = <<>> \/ (Len(stack[t]) = 1 /\ Top(t).pc = "while")

ErrorEvents(t) == {i \in 1..Len(emitted[t]) : emitted[t][i][1] = "error"}

\* The loop ended on a fault: one error event, the last thing it did.
EndedOnError(t) ==
  /\ thread[t] = "crashed" /\ stack[t] = <<>>
  /\ Cardinality(ErrorEvents(t)) = 1
  /\ emitted[t][Len(emitted[t])][1] = "error"

\* C14 as stated: after a fault of any device call inside an iteration the
\* loop has emitted exactly one error event and terminated.
C14_Original ==
  \A t \in Threads : (IterationOver(t) /\ FaultsOf(t) > 0) => EndedOnError(t)

\* A fault of thread t's iteration was not caught inside wait_finger_removed.
Uncaught(t) == \E i \in 1..Len(emitted[t]) : emitted[t][i][1] = "fault" /\ emitted[t][i][3] = 0

\* C14 amended: a fault that reaches the loop's own try (its readImage,
\* convertImage or searchTemplate, or an LED fault wait_finger_removed does
\* not catch) makes the loop emit exactly one error event and end; a fault
\* caught inside wait_finger_removed emits no event and the loop goes on.  A
\* thread that emitted an error event has ended or is inside the broadcast of
\* that event, after which it ends.  An ended thread stays ended, and a thread
\* comes alive only in start_continuous.
C14_LoopFault ==
  /\ [](\A t \in Threads :
          /\ (IterationOver(t) /\ FaultsOf(t) > 0) =>
               IF Uncaught(t) THEN EndedOnError(t)
               ELSE thread[t] # "crashed" /\ ErrorEvents(t) = {}
          /\ thread[t] = "crashed" => EndedOnError(t) /\ Uncaught(t)
          /\ ErrorEvents(t) # {} =>
               \/ thread[t] = "crashed"
               \/ thread[t] = "alive" /\ At(t, "_continuous_loop")
                                      /\ Top(t).pc = "error_send_text")
  /\ [][\A t \in Threads :
          /\ thread[t] = "crashed" => thread'[t] = "crashed" /\ emitted'[t] = emitted[t]
          /\ (thread[t] # "alive" /\ thread'[t] = "alive") =>
               \E w \in Workers : worker[w].pc = "start" /\ worker[w].t = t]_vars

\* A loop ended on a fault, the host went on and an explicit start_continuous
\* started another loop.
C14_Witness ==
  /\ EndedOnError(1)
  /\ FaultsOf(1) = 1
  /\ thread[2] = "alive" /\ stack[2] # <<>> /\ Top(2).pc = "readImage"

\* A step of loop thread t that changes the state.
ThreadStep(t) == <<wait_finger_removed(t) \/ continuous_loop(t)>>_vars

\* C15: once stop_continuous has set the stop signal, a running loop thread
\* terminates under fair scheduling whatever the finger does: as long as it is
\* alive the thread can itself take a step forward, without any change of
\* the finger on the sensor.
C15_StopTerminates ==
  \A t \in Threads : (stop_event /\ thread[t] = "alive") => ENABLED ThreadStep(t)

\* Loop thread t handed an event to the consumer, which has not completed
\* the delivery.
AwaitingDelivery(t) ==
  /\ thread[t] = "alive"
  /\ stack[t] # <<>>
  /\ Top(t).fn = "_continuous_loop" /\ Top(t).pc \in {"send_text", "error_send_text"}

\* C16: event delivery is non-blocking: while a consumer has not completed
\* the delivery of an event, the loop thread can go on to its next sensor poll.
C16_NonBlocking == \A t \in Threads : AwaitingDelivery(t) => ENABLED ThreadStep(t)

\* ------------------------------------------------------ the action executor
\* Fingerprints get their actions, the verification task runs on the event
\* loop and the continuous loop in its thread.
NextAction ==
  \/ PlaceFinger
  \/ RemoveFinger
  \/ set_fingerprint_action
  \/ hist = <<>> /\ StartOp("verify_fingerprint_task", None)
  \/ verify_fingerprint_task(Foreground)
  \/ verify_finger(Foreground)
  \/ \E p \in Procs : wait_for_finger(p)
  \/ \E p \in Procs : wait_finger_removed(p)
  \/ \E t \in Threads : continuous_loop(t)
  \/ \E t \in Threads : Deliver(t)
  \/ start_continuous(1)

SpecAction == InitEnrolled /\ [][NextAction]_vars

\* The frame of process p that holds `position` and `action` of its
\* verification: the task's or the loop's own, the bottom of its stack.
Verification(p) == stack[p][Len(stack[p])]

\* Process p is past the executor's place in its verification: the task is at
\* one of its result broadcasts, the loop at its broadcast or behind it.
Decided(p) ==
  /\ stack[p] # <<>>
  /\ \/ /\ Verification(p).fn = "verify_fingerprint_task"
        /\ Verification(p).pc \in {"broadcast_success", "broadcast_failed"}
     \/ /\ Verification(p).fn = "_continuous_loop"
        /\ Verification(p).pc \in {"broadcast", "send_text", "wait_finger_removed"}

\* Both executor functions, called once each with the action.
BothCalled(action) ==
  <<<<"control_smart_plug", action>>, <<"control_smartphone_light", action>>>>

\* The metadata lookup of process p happens in this step.
LooksUp(p) ==
  /\ stack[p] # <<>>
  /\ \/ Verification(p).fn = "verify_fingerprint_task"
          /\ Verification(p).pc = "get_fingerprint_by_position"
     \/ Verification(p).fn = "_continuous_loop" /\ Verification(p).pc = "searchTemplate"
  /\ stack'[p] # <<>>
  /\ Verification(p)'.pc # Verification(p).pc

\* C17: once a verification (task or loop iteration) is past the executor's
\* place, both executor functions have been called with the action exactly
\* when the match position is >= 0 and the action looked up for it is
\* neither None nor empty nor "na", and otherwise neither has; the action
\* looked up is the metadata of the matched position; a verification that
\* failed or matched nothing has called none.
C17_ActionExecutor ==
  /\ [](\A p \in Procs :
          /\ Decided(p) =>
               LET f == Verification(p) IN
               executed[p] = IF f.position # None /\ f.position >= 0
                                /\ f.action \notin {NoAction, "", "na"}
                             THEN BothCalled(f.action) ELSE <<>>
          /\ (stack[p] # <<>> /\ Verification(p).position \in {None, -1}) =>
               executed[p] = <<>>)
  /\ [][\A p \in Procs :
          LooksUp(p) =>
            Verification(p)'.action =
              IF Verification(p)'.position >= 0
                   /\ metadata[Verification(p)'.position] # NoEntry
              THEN metadata[Verification(p)'.position] ELSE NoAction]_vars

\* The task matched a fingerprint with a real action and called the executor,
\* and the loop matched one carrying the sentinel and did not.
C17_Witness ==
  /\ Decided(Foreground)
  /\ executed[Foreground] = BothCalled("on")
  /\ \E t \in Threads :
       /\ Decided(t)
       /\ Verification(t).position >= 0
       /\ Verification(t).action = "na"
       /\ executed[t] = <<>>

\* C18: every storeTemplate of an enroll_finger call is sent the template
\* count that call read first, that position lies in 0..capacity-1, at most
\* one is sent per call, and a call that succeeds returns (True, position)
\* with the position it stored at.
C18_StorePosition ==
  CurOp = "enroll_finger" =>
    /\ \A i \in Issued("storeTemplate") :
         /\ log[1][1] = "getTemplateCount"
         /\ log[i][2] = log[1][2]
         /\ log[1][2] = Count(snap)
         /\ 0 <= log[i][2] /\ log[i][2] < getStorageCapacity
    /\ Cardinality(Issued("storeTemplate")) <= 1
    /\ (FgIdle /\ ~Last.raised /\ Last.val[1]) =>
         \E i \in Issued("storeTemplate") : Last.val = <<TRUE, log[i][2]>>

\* An enrollment into a database that already held a template succeeded and
\* returned the slot after it.
C18_Witness ==
  /\ Finished("enroll_finger")
  /\ ~Last.raised /\ Last.val = <<TRUE, 1>>
  /\ \E i \in Issued("storeTemplate") : log[i][2] = 1
  /\ Count(Last.pre) = 1

\* ------------------------------------------------------ the outcome signal
\* The operation in the log sent the LED command (mode, color).
Signalled(mode, color) == \E i \in 1..Len(log) : log[i] = <<"led", mode, color>>

\* The finished operation reported success.
Succeeded ==
  IF Last.op \in {"enroll_finger", "verify_finger"} THEN Last.val[1] ELSE Last.val

\* The finished enrollment reported the slot that already holds the finger.
Duplicate == Last.op = "enroll_finger" /\ ~Last.val[1] /\ Last.val[2] # None

\* The finished verification, or the one a deletion began with, searched and
\* found nothing.
NotFound ==
  /\ Last.op \in {"verify_finger", "delete_finger"}
  /\ ~Succeeded
  /\ \E i \in Issued("searchTemplate") : log[i][2] < 0

\* C19: when enroll_finger, verify_finger, delete_finger or clear_database of
\* a connected manager has returned, the LED command of its outcome is among
\* the commands it sent: solid green for success, purple blink for a
\* duplicate, red blink for not-found (solid red when the blink itself
\* failed), solid red for any other failure.
C19_OutcomeSignal ==
  (FgIdle /\ hist # <<>> /\ Last.op \in LedOps /\ ~Last.raised /\ mgr.finger) =>
    IF Succeeded THEN Signalled(ON, GREEN)
    ELSE IF Duplicate THEN Signalled(BLINK, PURPLE)
    ELSE IF NotFound /\ Faults = 0 THEN Signalled(BLINK, RED)
    ELSE Signalled(ON, RED) \/ (NotFound /\ Signalled(BLINK, RED))

\* An enrollment into a full database returned its failure with the LED solid
\* red, after a verification that found nothing had signalled with red blink.
C19_Witness ==
  /\ Finished("enroll_finger")
  /\ ~Last.raised /\ mgr.finger
  /\ Last.val = <<FALSE, None>>
  /\ Signalled(ON, RED)
  /\ Len(hist) = 2 /\ hist[1].op = "verify_finger" /\ ~hist[1].raised /\ ~hist[1].val[1]

\* ------------------------------------------------------- the LED packets
MaxSends == 2        \* send_command calls over a run

\* A byte.
Bytes == 0..255

\* The parameter bytes tried in each of p1..p4.
ParameterSamples == {0, 1, 128, 255}

RECURSIVE sum(_)
\* Python's sum() of a list of integers.
sum(data) == IF data = <<>> THEN 0 ELSE Head(data) + sum(Tail(data))

calculate_checksumMutant(data) ==
  LET checksum == sum(data) IN <<checksum % 256, (checksum \div 256) % 256>>

\* R503LED.calculate_checksum: `[(checksum >> 8) & 0xFF, checksum & 0xFF]`.
calculate_checksum(data) ==
  LET checksum == sum(data) IN <<(checksum \div 256) % 256, checksum % 256>>

\* The header every packet starts with.
header == <<239, 1, 255, 255, 255, 255>>

\* R503LED.send_command: the bytes handed to ser.write.
send_command(instruction, p1, p2, p3, p4) ==
  LET identifier == <<1>>
      parameter == <<p1, p2, p3, p4>>
      length == 1 + Len(parameter) + 2
      length_bytes == <<0, length>>
      command_without_checksum ==
        identifier \o length_bytes \o <<instruction>> \o parameter
      checksum == calculate_checksum(command_without_checksum)
  IN header \o command_without_checksum \o checksum

\* A send_command call on the LED link: the first with any arguments, a later
\* one with the arguments of the first.
SendCommand ==
  /\ written.n < MaxSends
  /\ IF written.n = 0
     THEN \E instruction \in Bytes, p1, p2, p3, p4 \in ParameterSamples :
            written' = [n |-> 1, call |-> <<"send_command">>, instruction |-> instruction,
                        parameter |-> <<p1, p2, p3, p4>>,
                        command |-> send_command(instruction, p1, p2, p3, p4)]
     ELSE written' = [written EXCEPT
                        !.n = @ + 1,
                        !.command = send_command(written.instruction,
                                                 written.parameter[1], written.parameter[2],
                                                 written.parameter[3], written.parameter[4])]
  /\ UNCHANGED <<sensorFinger, dev, mgr, stack, log, hist, snap, thread, threadInfo,
                 continuous_thread, stop_event, worker, stop_calls, emitted, smarthome,
                 running, websocket>>

control_led_commandMutant(mode, color) == send_command(53, color, 0, mode, 0)

\* R503LED.control_led: `self.send_command(instruction, mode, 0, color, 0)`
\* with instruction 0x35.
control_led_command(mode, color) == send_command(53, mode, 0, color, 0)

\* A control_led call on the LED link, with any mode and color the manager uses.
ControlLed ==
  /\ written.n = 0
  /\ \E mode \in {BLINK, ON, OFF}, color \in {RED, BLUE, PURPLE, GREEN} :
       written' = [n |-> 1, call |-> <<"control_led", mode, color>>, instruction |-> 53,
                   parameter |-> <<mode, 0, color, 0>>,
                   command |-> control_led_command(mode, color)]
  /\ UNCHANGED <<sensorFinger, dev, mgr, stack, log, hist, snap, thread, threadInfo,
                 continuous_thread, stop_event, worker, stop_calls, emitted, smarthome,
                 running, websocket>>

\* FingerStatus
SUCCESS == 0
ERROR == 1
NO_FINGER == 2
ALREADY_EXISTS == 3
NOT_FOUND == 4

\* The status values handed to set_led_status: the five members and one other.
Statuses == 0..5

set_led_statusMutant(s) ==
  CASE s = SUCCESS -> <<ON, GREEN>>
    [] s = NO_FINGER -> <<BLINK, BLUE>>
    [] s = ALREADY_EXISTS -> <<BLINK, PURPLE>>
    [] OTHER -> <<ON, RED>>

\* R503Manager.set_led_status: the (mode, color) of the one led_on or
\* led_blink call its if/elif chain makes.
set_led_status(s) ==
  IF s = SUCCESS THEN <<ON, GREEN>>
  ELSE IF s = NO_FINGER THEN <<BLINK, BLUE>>
  ELSE IF s = ALREADY_EXISTS THEN <<BLINK, PURPLE>>
  ELSE IF s = NOT_FOUND THEN <<BLINK, RED>>
  ELSE <<ON, RED>>

\* A set_led_status call on a connected manager: its control_led call.
SetLedStatus ==
  /\ written.n = 0
  /\ \E s \in Statuses :
       LET mode == set_led_status(s)[1]
           color == set_led_status(s)[2]
       IN written' = [n |-> 1, call |-> <<"set_led_status", s>>, instruction |-> 53,
                      parameter |-> <<mode, 0, color, 0>>,
                      command |-> control_led_command(mode, color)]
  /\ UNCHANGED <<sensorFinger, dev, mgr, stack, log, hist, snap, thread, threadInfo,
                 continuous_thread, stop_event, worker, stop_calls, emitted, smarthome,
                 running, websocket>>

NextPacket == SendCommand \/ ControlLed \/ SetLedStatus

SpecPacket == Init /\ [][NextPacket]_vars

\* The bytes of the written packet from the packet-type byte through the
\* last parameter byte.
Summed == SubSeq(written.command, Len(header) + 1, Len(written.command) - 2)

\* C20: the two bytes send_command appends are the sum, modulo 2^16, of the
\* bytes from the packet-type byte through the last parameter byte, high byte
\* first, for every instruction byte and the sampled parameter bytes; and the
\* same arguments give the same bytes again.
C20_Checksum ==
  /\ [](written.n > 0 =>
          LET command == written.command
              s == sum(Summed) % 65536
          IN /\ Len(command) = Len(header) + 8 + 2
             /\ SubSeq(command, 1, Len(header)) = header
             /\ Summed = <<1, 0, 7, written.instruction>> \o written.parameter
             /\ command[Len(command) - 1] = s \div 256
             /\ command[Len(command)] = s % 256
             /\ \A i \in 1..Len(command) : command[i] \in Bytes)
  /\ [][(written.n > 0 /\ written'.instruction = written.instruction
                       /\ written'.parameter = written.parameter)
          => written'.command = written.command]_vars

\* The LED instruction with every parameter 255 was sent twice; the sum 1081
\* needs both checksum bytes: 4 and 57.
C20_Witness ==
  /\ written.n = 2
  /\ written.instruction = 53
  /\ written.parameter = <<255, 255, 255, 255>>
  /\ written.command[15] = 4 /\ written.command[16] = 57

\* C21: every packet send_command writes is EF 01, FF FF FF FF, 01, 00 07,
\* the instruction, the four parameters and two checksum bytes, sixteen bytes
\* in all; control_led sends instruction 0x35 with (mode, 0, color, 0), and
\* for LED on, red the packet is EF 01 FF FF FF FF 01 00 07 35 02 00 01 00 00 40.
C21_Frame ==
  written.n > 0 =>
    /\ Len(written.command) = 16
    /\ SubSeq(written.command, 1, 14) =
         <<239, 1, 255, 255, 255, 255, 1, 0, 7, written.instruction>> \o written.parameter
    /\ written.call[1] = "control_led" =>
         /\ written.instruction = 53
         /\ written.parameter = <<written.call[2], 0, written.call[3], 0>>
    /\ written.call = <<"control_led", ON, RED>> =>
         written.command = <<239, 1, 255, 255, 255, 255, 1, 0, 7, 53, 2, 0, 1, 0, 0, 64>>

\* control_led(ON, RED) wrote its packet, twice.
C21_Witness ==
  /\ written.n = 2
  /\ written.call = <<"control_led", ON, RED>>
  /\ written.command[10] = 53 /\ written.command[16] = 64

\* ------------------------------------------------------ two-scan enrollment
\* The foreground enroll_finger has converted its first scan and has not yet
\* stored the template.
BetweenScanAndStore ==
  /\ stack[Foreground] # <<>>
  /\ BottomFn(Foreground) = "enroll_finger"
  /\ stack[Foreground][Len(stack[Foreground])].pc \in
       {"wait_finger_removed1", "wait_for_finger2", "convertImage2", "searchTemplate",
        "createTemplate", "storeTemplate"}

\* Loop thread t is about to send convertImage or searchTemplate.
LoopUsesBuffers(t) ==
  /\ stack[t] # <<>>
  /\ Top(t).fn = "_continuous_loop"
  /\ Top(t).pc \in {"convertImage", "searchTemplate"}

\* C22: between the first convertImage of an enroll_finger call and its
\* storeTemplate the continuous loop sends no convertImage and no
\* searchTemplate, so the stored template is built from the two scans of that
\* call.
C22_EnrollAtomic ==
  [][\A t \in Threads :
       (BetweenScanAndStore /\ LoopUsesBuffers(t)) => stack'[t] = stack[t]]_vars

\* ------------------------------------------------------ the order of enrollment
EnrollSteps ==
  {"getTemplateCount", "getStorageCapacity", "wait_for_finger", "convertImage",
   "wait_finger_removed", "searchTemplate", "createTemplate", "storeTemplate"}

\* The device steps of the operation in the log, in order: the name, and for
\* convertImage the feature buffer.
StepsTaken ==
  LET steps == SelectSeq(log, LAMBDA ev : ev[1] \in EnrollSteps)
  IN [i \in 1..Len(steps) |->
        <<steps[i][1], IF steps[i][1] = "convertImage" THEN steps[i][2] ELSE 0>>]

\* The order of a successful enrollment.
EnrollOrder ==
  <<<<"getTemplateCount", 0>>, <<"getStorageCapacity", 0>>, <<"wait_for_finger", 0>>,
    <<"convertImage", 1>>, <<"wait_finger_removed", 0>>, <<"wait_for_finger", 0>>,
    <<"convertImage", 2>>, <<"searchTemplate", 0>>, <<"createTemplate", 0>>,
    <<"storeTemplate", 0>>, <<"wait_finger_removed", 0>>>>

\* One of the first three waits of the foreground enroll_finger is in its
\* except block.
EnrollWaitFailing ==
  /\ Len(stack[Foreground]) = 2
  /\ Top(Foreground).fn \in {"wait_for_finger", "wait_finger_removed"}
  /\ Top(Foreground).pc = "handler"
  /\ stack[Foreground][2].fn = "enroll_finger"
  /\ stack[Foreground][2].pc \in {"wait_for_finger1", "wait_finger_removed1",
                                   "wait_for_finger2"}

\* C23: a successful enroll_finger took its device steps in the order count,
\* capacity, wait for finger, convertImage(1), wait removed, wait for finger,
\* convertImage(2), search, create, store, wait removed; and when one of the
\* first three waits returns False (its except block set the LED red), the
\* call returns (False, None) at once, with no search, create or store sent.
C23_EnrollOrder ==
  /\ []((Finished("enroll_finger") /\ ~Last.raised /\ Last.val[1]) =>
          StepsTaken = EnrollOrder)
  /\ [][(EnrollWaitFailing /\ Len(log') > Len(log)
                           /\ log'[Len(log')] = <<"led", ON, RED>>) =>
          /\ stack'[Foreground] = <<>>
          /\ ~hist'[Len(hist')].raised
          /\ hist'[Len(hist')].val = <<FALSE, None>>
          /\ \A i \in 1..Len(log') :
               log'[i][1] \notin {"searchTemplate", "createTemplate", "storeTemplate"}]_vars

\* An enrollment returned (False, None) because its second wait for a finger
\* failed after the first scan was converted.
C23_Witness ==
  /\ Finished("enroll_finger")
  /\ ~Last.raised /\ Last.val = <<FALSE, None>>
  /\ Faults = 1
  /\ \E i \in Issued("wait_for_finger") : log[i][2] = 2
  /\ log[Len(log)] = <<"led", ON, RED>>
  /\ Issued("convertImage") # {} /\ Issued("searchTemplate") = {}
\* ------------------------------------------------- tasks on the event loop
MaxTasks == 2        \* requests whose task or handler runs over a run

Started == Len(hist) + Cardinality({c \in Coroutines : stack[c] # <<>>})

\* Request handlers and background tasks as coroutines of the one event loop,
\* a websocket client connected, no continuous loop started.
NextTasks ==
  \/ PlaceFinger
  \/ RemoveFinger
  \/ \E c \in Coroutines, r \in TaskRequests :
       Started < MaxTasks /\ StartTask(c, r[1], r[2])
  \/ \E c \in Coroutines : enroll_fingerprint_task(c)
  \/ \E c \in Coroutines : delete_fingerprint_task(c)
  \/ \E c \in Coroutines : clear_database_task(c)
  \/ \E c \in Coroutines : get_count(c)
  \/ \E c \in Coroutines : wait_for_finger(c)
  \/ \E c \in Coroutines : wait_finger_removed(c)
  \/ \E c \in Coroutines : enroll_finger(c)
  \/ \E c \in Coroutines : verify_finger(c)
  \/ \E c \in Coroutines : delete_finger(c)
  \/ \E c \in Coroutines : get_template_count(c)
  \/ \E c \in Coroutines : clear_database(c)

SpecTasks == Init /\ [][NextTasks]_vars

\* Coroutine c is inside a manager operation.
InManager(c) == \E i \in 1..Len(stack[c]) : stack[c][i].fn \in ManagerOps

\* Coroutine c is inside enroll_finger, has read the template count and has
\* not stored yet.
HoldsCount(c) ==
  \E i \in 1..Len(stack[c]) :
    /\ stack[c][i].fn = "enroll_finger"
    /\ stack[c][i].pc \notin {"getTemplateCount", "success_led", "led_off",
                               "success_wait_finger_removed"}

CountHeld(c) == (CHOOSE f \in {stack[c][i] : i \in 1..Len(stack[c])} : f.fn = "enroll_finger").position

\* C24: no two executions of manager operations started by request handlers
\* or background tasks overlap, and an enroll_finger execution that has read
\* the template count and not yet stored holds a count that is still the
\* sensor's: no other execution read it too or changed the database meanwhile.
C24_OneAtATime ==
  /\ \A c, d \in Coroutines : InManager(c) /\ InManager(d) => c = d
  /\ \A c \in Coroutines : InManager(c) => running = c
  /\ \A c \in Coroutines : HoldsCount(c) => CountHeld(c) = getTemplateCount(dev)

\* Two enrollment tasks in flight: one inside enroll_finger past its first
\* scan, the other started and waiting for the event loop.
C24_Witness ==
  /\ HoldsCount(Foreground) /\ dev.charbuf1 # NoFinger
  /\ At(Second, "enroll_fingerprint_task") /\ Top(Second).pc = "enroll_finger"
  /\ running = Foreground

\* Task c, started without a position, is between its verify_finger, which
\* matched, and its delete_finger(position).
Matched(c) ==
  /\ At(c, "delete_fingerprint_task") /\ Len(stack[c]) = 1
  /\ Top(c).pc \in {"broadcast_found", "delete_finger"}
  /\ Top(c).success

\* C25: between the verify_finger of a delete_fingerprint_task called without
\* a position and its delete_finger(position), no step changes the content of
\* the matched position.
C25_DeleteAtomic ==
  [][\A c \in Coroutines :
       Matched(c) => dev'.templates[Top(c).position] = dev.templates[Top(c).position]]_vars

\* Loop thread t is in its own frame at pc.
LoopAt(t, pc) == At(t, "_continuous_loop") /\ Top(t).pc = pc

\* The continuous_verify events thread t emitted in its current iteration.
VerifyEvents(t) ==
  {i \in 1..Len(emitted[t]) : emitted[t][i][1] = "continuous_verify"}

\* Thread t, inside wait_finger_removed, has had a poll without an image: it
\* is at the LED-off that follows, or in the handler after that packet failed.
SawRemoved(t) ==
  \/ Top(t).pc = "led_off"
  \/ /\ Top(t).pc = "handler"
     /\ emitted[t] # <<>> /\ emitted[t][Len(emitted[t])] = <<"fault", 2, 1>>

\* C26: after the event for a captured image the loop runs
\* wait_finger_removed, and it polls for an image again only once that wait
\* has had a poll without an image, so one uninterrupted placement gives at
\* most one continuous_verify event; a poll of the loop that finds no image
\* emits no event and leads back to the loop's test.
C26_OneEventPerPlacement ==
  [][\A t \in Threads :
       /\ (LoopAt(t, "broadcast") /\ stack'[t] # stack[t]) =>
            /\ Top(t)'.pc \in {"wait_finger_removed", "send_text"}
            /\ Cardinality(VerifyEvents(t)') = 1
       /\ (LoopAt(t, "send_text") /\ stack'[t] # stack[t]) =>
            Top(t)'.pc = "wait_finger_removed"
       /\ (LoopAt(t, "wait_finger_removed") /\ stack'[t] # stack[t]) =>
            Top(t)'.fn = "wait_finger_removed"
       /\ (At(t, "wait_finger_removed") /\ Top(t).pc = "readImage"
             /\ Top(t)'.pc = "led_off") => sensorFinger = NoFinger
       /\ (At(t, "wait_finger_removed") /\ LoopAt(t, "while")') => SawRemoved(t)
       /\ (LoopAt(t, "readImage") /\ sensorFinger = NoFinger /\ stack'[t] # stack[t]
             /\ FaultsOf(t)' = FaultsOf(t)) =>
            /\ LoopAt(t, "while")'
            /\ emitted'[t] = emitted[t] /\ dev' = dev
       /\ (LoopAt(t, "readImage")' /\ stack'[t] # stack[t]) => LoopAt(t, "while")]_vars
\* What the event of an iteration must be, given what the iteration's
\* searchTemplate returned (kept in the loop's `pos`, `accuracy`) and the
\* metadata entry looked up for a match.
EventFor(f) ==
  IF f.position >= 0
  THEN <<"continuous_verify", "success", f.position, f.accuracy, f.fp>>
  ELSE <<"continuous_verify", "failed", None, None, None>>

\* C27: every continuous_verify event has status "success" with the matched
\* position and accuracy exactly when the iteration's searchTemplate returned
\* a position >= 0, and otherwise status "failed" with position, accuracy and
\* name None.
C27_EventMatchesSearch ==
  [][\A t \in Threads :
       /\ (LoopAt(t, "searchTemplate") /\ stack'[t] # stack[t]) =>
            /\ Top(t)'.position = searchTemplate(dev)[1]
            /\ Top(t)'.accuracy = searchTemplate(dev)[2]
       /\ (At(t, "_continuous_loop") /\ stack'[t] # stack[t]
             /\ Top(t).pc \in {"control_smart_plug", "control_smartphone_light", "broadcast"}) =>
            /\ Top(t)'.position = Top(t).position
            /\ Top(t)'.accuracy = Top(t).accuracy
       /\ (LoopAt(t, "broadcast") /\ stack'[t] # stack[t]) =>
            emitted'[t] = Append(emitted[t], EventFor(Top(t)))
       /\ emitted'[t] # emitted[t] =>
            \/ emitted'[t] = <<>>
            \/ emitted'[t][Len(emitted'[t])][1] # "continuous_verify"
            \/ LoopAt(t, "broadcast")]_vars

\* The loop matched a finger whose metadata entry exists and has emitted the
\* success event with its position and accuracy.
C27_Witness ==
  \E a \in 1..100 : emitted[1] = <<<<"continuous_verify", "success", 0, a, 0>>>>

\* Task c is back from its delete_finger(position) call.
DeleteReturned(c) ==
  /\ At(c, "delete_fingerprint_task") /\ Len(stack[c]) = 1
  /\ Top(c).pc = "remove_fingerprint"

\* What delete_finger(position) sent, and returned to the foreground task: one
\* deleteTemplate(position) and no finger wait, then green and off with True
\* when the device accepted, solid red with False otherwise.
DeleteByPosition ==
  DeleteReturned(Foreground) =>
    LET f == Top(Foreground) IN
    /\ Len(log) >= 1
    /\ log[1][1] = "deleteTemplate" /\ log[1][2] = f.position
    /\ Issued("deleteTemplate") = {1}
    /\ Issued("wait_for_finger") = {} /\ Issued("wait_finger_removed") = {}
    /\ Issued("readImage") = {}
    /\ IF log[1][3] = 1
       THEN f.success /\ log = <<log[1], <<"led", ON, GREEN>>, <<"led", OFF, BLUE>>>>
       ELSE ~f.success /\ log = <<log[1], <<"led", ON, RED>>>>

\* The metadata entry of the position goes when the sensor deletion returned
\* True, and only then.
EntryRemoved ==
  \A c \in Coroutines :
    (DeleteReturned(c) /\ stack'[c] # stack[c]) =>
      metadata' = IF Top(c).success THEN [metadata EXCEPT ![Top(c).position] = NoEntry]
                  ELSE metadata

\* C28: delete_finger(position) issues exactly one deleteTemplate(position)
\* and no finger wait, returns True with a green LED when the device accepts
\* and False with a solid red LED when it declines; delete_fingerprint_task
\* removes the metadata entry of the position when, and only when, the sensor
\* deletion returned True.
C28_DeleteByPosition == []DeleteByPosition /\ [][EntryRemoved]_vars

\* get_template_count leaves the template database, the image buffer and the
\* feature buffers as they are.
CountChangesNothing ==
  At(Foreground, "get_template_count") =>
    /\ dev'.templates = dev.templates
    /\ dev'.image = dev.image
    /\ dev'.charbuf1 = dev.charbuf1 /\ dev'.charbuf2 = dev.charbuf2

\* The finished get_template_count returned a count: it sent one count query
\* and returned its answer, the number of templates now on the sensor.
ReturnedLiveCount ==
  /\ Issued("getTemplateCount") = {1}
  /\ Last.val = log[1][2]
  /\ Last.val = getTemplateCount(dev)

\* C29: get_template_count issues a single live count query and returns the
\* sensor's current template count, or None on a fault (the query raised, or
\* the sensor was never connected); it never raises and changes neither the
\* template database nor the feature buffers.
C29_LiveCount ==
  /\ [](Finished("get_template_count") =>
          /\ ~Last.raised
          /\ Cardinality(Issued("getTemplateCount")) <= 1
          /\ IF Faults = 0 /\ mgr.finger THEN ReturnedLiveCount ELSE Last.val = None)
  /\ [][CountChangesNothing]_vars
\* ------------------------------------------------------ the wait for a finger
\* One verification, device faults included; the thread inside
\* wait_for_finger keeps polling, so its steps are taken.
NextWait ==
  \/ PlaceFinger
  \/ RemoveFinger
  \/ hist = <<>> /\ StartOp("verify_finger", None)
  \/ wait_for_finger(Foreground)
  \/ wait_finger_removed(Foreground)
  \/ verify_finger(Foreground)
  \/ LibFault(Foreground)
  \/ LedFault(Foreground)

SpecWait == Init /\ [][NextWait]_vars /\ WF_vars(wait_for_finger(Foreground))

InWait == At(Foreground, "wait_for_finger")

\* wait_for_finger hands True to its caller: verify_finger goes on to convert
\* the image.
ReturnsTrue ==
  /\ InWait
  /\ At(Foreground, "verify_finger")' /\ Top(Foreground)'.pc = "convertImage"

\* The steps of wait_for_finger: blink blue first, then polls; the step to
\* solid blue follows a poll that captured an image, True is returned from
\* there with the LED solid blue, and any other return comes out of the
\* handler after a fault.
WaitSteps ==
  InWait =>
    LET pc == Top(Foreground).pc
        pc1 == Top(Foreground)'.pc
        moved == stack'[Foreground] # stack[Foreground]
    IN
    /\ (pc = "led_blink" /\ moved /\ InWait') =>
         \/ pc1 = "readImage" /\ dev'.led = <<BLINK, BLUE>>
         \/ pc1 = "handler"
    /\ (InWait' /\ pc1 = "readImage") => pc \in {"led_blink", "readImage"}
    /\ (InWait' /\ pc1 = "led_on" /\ moved) =>
         pc = "readImage" /\ sensorFinger # NoFinger /\ dev'.image = sensorFinger
    /\ ReturnsTrue => pc = "led_on" /\ dev'.led = <<ON, BLUE>> /\ dev.image # NoFinger
    /\ (stack'[Foreground] # <<>> /\ Len(stack'[Foreground]) < Len(stack[Foreground])) =>
         \/ pc = "led_on"
         \/ FaultsOf(Foreground)' > 0

\* C30: wait_for_finger sends LED blink-blue before its first poll, returns
\* True only after a poll captured an image and with solid blue the last LED
\* command; without an image and without a fault it does not return; and it
\* ends once a finger stays on the sensor.
C30_WaitForFinger ==
  /\ [][WaitSteps]_vars
  /\ (<>[](sensorFinger # NoFinger)) => [](InWait => <>(~InWait))

\* wait_for_finger polled an empty sensor, then captured the image and has
\* returned True to verify_finger with the LED solid blue.
C30_Witness ==
  /\ At(Foreground, "verify_finger") /\ Top(Foreground).pc = "convertImage"
  /\ Len(log) = 5
  /\ log[2] = <<"led", BLINK, BLUE>>
  /\ log[3] = <<"readImage", 0, 0>>
  /\ log[4][1] = "readImage" /\ log[4][2] = 1
  /\ log[5] = <<"led", ON, BLUE>>
  /\ dev.led = <<ON, BLUE>>
\* ------------------------------------------------------------ LED status
\* C31: set_led_status sends exactly one LED command fixed by the status:
\* SUCCESS on/green, NO_FINGER blink/blue, ALREADY_EXISTS blink/purple,
\* NOT_FOUND blink/red, anything else on/red; the command is instruction 0x35
\* with parameters (mode, 0, color, 0), modes 1, 2, 4 and colors in 1..7.
C31_LedStatus ==
  (written.n > 0 /\ written.call[1] = "set_led_status") =>
    LET s == written.call[2]
        expected == CASE s = 0 -> <<2, 4>>
                      [] s = 2 -> <<1, 2>>
                      [] s = 3 -> <<1, 3>>
                      [] s = 4 -> <<1, 1>>
                      [] OTHER -> <<2, 1>>
    IN /\ written.instruction = 53
       /\ written.parameter = <<expected[1], 0, expected[2], 0>>
       /\ written.parameter[1] \in {1, 2, 4} /\ written.parameter[3] \in 1..7
       /\ SubSeq(written.command, 10, 14) = <<53, expected[1], 0, expected[2], 0>>

\* set_led_status(NOT_FOUND) wrote its packet: blink, red.
C31_Witness ==
  /\ written.call = <<"set_led_status", NOT_FOUND>>
  /\ SubSeq(written.command, 10, 14) = <<53, 1, 0, 1, 0>>

\* ------------------------------------------------------------ C32
\* get_manager() has handed out the manager: a request other than connect()
\* runs on it or has finished on it.
Returned ==
  \/ stack[Foreground] # <<>> /\ BottomFn(Foreground) # "connect"
  \/ \E i \in 1..Len(hist) : hist[i].op # "connect"

\* The connect() call that get_manager() made on the manager returned True.
ConnectReturnedTrue ==
  \E i \in 1..Len(hist) :
    hist[i].op = "connect" /\ ~hist[i].raised /\ hist[i].val = TRUE

\* C32: get_manager returns a connected manager: every manager it hands out
\* has had a connect() call that returned True; a manager whose connection
\* attempt failed is not kept as the process-wide manager for later calls.
C32_ConnectedManager == Returned => ConnectReturnedTrue

\* ------------------------------------------------------------ C33
MaxCalls == 3        \* calls of the metadata functions over a run

\* load_fingerprint_data(): the positions that have an entry on file.
load_fingerprint_data == {position \in Positions : metadata[position] # NoEntry}

\* update_fingerprint_action(position, action): the entry on file gets the
\* action and the list is saved; nothing happens without an entry.
update_fingerprint_action(position, action) ==
  IF position \in load_fingerprint_data
  THEN save_fingerprint_data([metadata EXCEPT ![position] = action])
  ELSE metadata

\* One call of a metadata function: the file becomes md, and the call joins
\* the finished operations with its result and its argument.
MetaCall(op, position, result, md) ==
  /\ Len(hist) < MaxCalls
  /\ metadata' = md
  /\ hist' = Append(hist, [op |-> op, val |-> <<result, position>>, raised |-> FALSE,
                           pre |-> snap, db |-> dev.templates])
  /\ UNCHANGED <<sensorFinger, dev, mgr, stack, log, snap, thread, threadInfo,
                 continuous_thread, stop_event, worker, stop_calls, emitted, executed,
                 written, websocket, running>>

AddFingerprint ==
  \E position \in Positions :
    MetaCall("add_fingerprint", position, TRUE, add_fingerprint(position))

UpdateFingerprintAction ==
  \E position \in Positions, action \in Actions :
    MetaCall("update_fingerprint_action", position, position \in load_fingerprint_data,
             update_fingerprint_action(position, action))

RemoveFingerprint ==
  \E position \in Positions :
    MetaCall("remove_fingerprint", position, position \in load_fingerprint_data,
             remove_fingerprint(position))

ClearAllFingerprints ==
  MetaCall("clear_all_fingerprints", None, TRUE, clear_all_fingerprints)

\* The metadata functions of api/models.py applied in any order to the file.
NextMeta ==
  \/ AddFingerprint
  \/ UpdateFingerprintAction
  \/ RemoveFingerprint
  \/ ClearAllFingerprints

SpecMeta == Init /\ [][NextMeta]_vars

\* The call that finished last was op and returned True.
ReturnedTrue(op) == hist # <<>> /\ Last.op = op /\ Last.val[1]

\* C33: metadata removal takes effect: after remove_fingerprint(p) returned
\* True the file has no entry for p (get_fingerprint_by_position(p) is None),
\* and after clear_all_fingerprints() returned True the file holds the empty
\* list, whatever add, update and remove calls came before.
C33_RemovalTakesEffect ==
  /\ ReturnedTrue("remove_fingerprint") => Last.val[2] \notin load_fingerprint_data
  /\ ReturnedTrue("clear_all_fingerprints") => load_fingerprint_data = {}

\* ------------------------------------------------------------ C34
MaxBroadcasts == 2   \* broadcast calls over a run

\* ConnectionManager.disconnect(websocket): the socket leaves the list when it
\* is in it.
disconnect(active_connections, socket) ==
  SelectSeq(active_connections, LAMBDA s : s # socket)

\* websocket_endpoint up to its receive loop: manager.connect(websocket)
\* accepts the socket and appends it to active_connections.
accept ==
  /\ \E socket \in Sockets \ websocket.accepted :
       websocket' = [websocket EXCEPT
                       !.active_connections = Append(@, socket),
                       !.accepted = @ \cup {socket}]
  /\ UNCHANGED <<sensorFinger, dev, mgr, stack, log, hist, snap, thread, threadInfo,
                 continuous_thread, stop_event, worker, stop_calls, emitted, smarthome,
                 written, running>>

\* A client goes away: from now on send_text on its socket raises and the
\* endpoint's receive_text raises WebSocketDisconnect.
ClientCloses ==
  /\ \E socket \in websocket.accepted \ websocket.closed :
       websocket' = [websocket EXCEPT !.closed = @ \cup {socket}]
  /\ UNCHANGED <<sensorFinger, dev, mgr, stack, log, hist, snap, thread, threadInfo,
                 continuous_thread, stop_event, worker, stop_calls, emitted, smarthome,
                 written, running>>

\* websocket_endpoint's except handlers: manager.disconnect(websocket) for a
\* socket whose client went away.
websocket_endpoint ==
  /\ \E socket \in websocket.closed :
       /\ \E k \in 1..Len(websocket.active_connections) :
            websocket.active_connections[k] = socket
       /\ websocket' = [websocket EXCEPT
                          !.active_connections = disconnect(@, socket)]
  /\ UNCHANGED <<sensorFinger, dev, mgr, stack, log, hist, snap, thread, threadInfo,
                 continuous_thread, stop_event, worker, stop_calls, emitted, smarthome,
                 written, running>>

\* A caller awaits manager.broadcast(message): the for statement takes an
\* iterator over active_connections, positioned at the first element.
StartBroadcast ==
  /\ websocket.i = None
  /\ websocket.calls < MaxBroadcasts
  /\ websocket' = [websocket EXCEPT
                     !.i = 1,
                     !.connection = None,
                     !.listed = {websocket.active_connections[k] :
                                   k \in 1..Len(websocket.active_connections)},
                     !.received = [socket \in Sockets |-> 0],
                     !.calls = @ + 1]
  /\ UNCHANGED <<sensorFinger, dev, mgr, stack, log, hist, snap, thread, threadInfo,
                 continuous_thread, stop_event, worker, stop_calls, emitted, smarthome,
                 written, running>>

\* ConnectionManager.broadcast, statement by statement.  The list iterator
\* keeps an index into the list itself: the for statement yields the element
\* at the index and advances it, or ends when the index is past the end.
\* `await connection.send_text(message)` delivers to an open socket and raises
\* for a closed one, and the handler removes that socket from the list.
broadcast ==
  /\ websocket.i # None
  /\ LET w == websocket IN
     websocket' =
       IF w.connection = None
       THEN IF w.i > Len(w.active_connections)
            THEN [w EXCEPT !.i = None]
            ELSE [w EXCEPT !.connection = w.active_connections[w.i], !.i = @ + 1]
       ELSE IF w.connection \in w.closed
            THEN [w EXCEPT !.active_connections = disconnect(@, w.connection),
                           !.connection = None]
            ELSE [w EXCEPT !.received[w.connection] = @ + 1, !.connection = None]
  /\ UNCHANGED <<sensorFinger, dev, mgr, stack, log, hist, snap, thread, threadInfo,
                 continuous_thread, stop_event, worker, stop_calls, emitted, smarthome,
                 written, running>>

\* Websocket clients come and go while messages are broadcast.
NextBroadcast ==
  \/ accept
  \/ ClientCloses
  \/ websocket_endpoint
  \/ StartBroadcast
  \/ broadcast

SpecBroadcast == Init /\ [][NextBroadcast]_vars

\* A broadcast call has returned and no other one has begun.
BroadcastReturned == websocket.calls > 0 /\ websocket.i = None

\* C34: one broadcast call sends the message to all connected clients: every
\* connection that was in active_connections and whose send does not fail has
\* received the message exactly once when the call returns, also when sends to
\* other connections failed and those were removed during the call.
C34_BroadcastReachesAll ==
  BroadcastReturned =>
    \A socket \in websocket.listed \ websocket.closed : websocket.received[socket] = 1

\* ------------------------------------------------------------ C35
\* The occupied slots of db are the first ones: what enrollments alone leave.
Packed(db) == \A p, q \in Positions : (p < q /\ db[q] # NoFinger) => db[p] # NoFinger

\* C35: after any sequence of successful enroll, delete and clear operations
\* on a database that began without a gap, a successful enroll_finger has
\* stored its template in a slot that was unoccupied when it began: it has
\* overwritten no template, and the template count is the count before the
\* call plus one.
C35_EnrollFreshSlot ==
  (Finished("enroll_finger") /\ Last.val[1] /\ Packed(hist[1].pre))
    => /\ Last.pre[Last.val[2]] = NoFinger
       /\ Count(Last.db) = Count(Last.pre) + 1

\* ------------------------------------------------------------ C36
\* The operation that finished last returned failure: (False, _) from
\* enroll_finger, False from delete_finger.
ReturnedFailure ==
  /\ FgIdle /\ hist # <<>> /\ ~Last.raised
  /\ \/ Last.op = "enroll_finger" /\ ~Last.val[1]
     \/ Last.op = "delete_finger" /\ ~Last.val

\* C36: a failed operation leaves the template database unchanged: when
\* enroll_finger returns (False, _) the call stored no template and when
\* delete_finger returns False the call deleted none, whichever step a device
\* fault hit, an LED command after the store or the delete included.
C36_FailureChangesNothing == ReturnedFailure => Last.db = Last.pre

\* ------------------------------------------------------------ C37
\* POST /verify/continuous/start, /verify/continuous/stop and the start
\* again, one after the other: the first start on pool worker 1, the stop when
\* that call has returned, the later start on pool worker 2; no other stop,
\* no device fault.
NextRestart ==
  \/ PlaceFinger
  \/ RemoveFinger
  \/ \E t \in Threads : wait_finger_removed(t)
  \/ \E t \in Threads : continuous_loop(t)
  \/ \E t \in Threads : Deliver(t)
  \/ stop_calls.n = 0 /\ worker[1].ret # "True" /\ start_continuous(1)
  \/ stop_calls.n = 0 /\ worker[1].ret = "True" /\ stop_continuous
  \/ stop_calls.n = 1 /\ worker[2].ret = "none" /\ start_continuous(2)

\* Loop threads are scheduled: a thread that can take a step takes one.
SpecRestart ==
  /\ InitEnrolled
  /\ [][NextRestart]_vars
  /\ \A t \in Threads : WF_vars(wait_finger_removed(t) \/ continuous_loop(t) \/ Deliver(t))

\* The start_continuous call that followed the stop has returned.
Restarted == worker[2].pc = "idle" /\ worker[2].ret # "none"

\* A continuous loop is running.
LoopRunning == \E t \in Threads : thread[t] = "alive"

\* C37: a start request is never lost: once start_continuous, called after
\* stop_continuous with no later stop and no device fault, has returned, a
\* continuous loop is eventually running and stays running, also when the
\* previous loop thread had not exited when the start call was made.
C37_StartNotLost == [](Restarted => <>[]LoopRunning)

\* ------------------------------------------------------------ C38
\* A slot is given an action, then freed by DELETE /delete or POST /clear,
\* then filled by POST /enroll, then a finger is verified: the requests one
\* after the other, each task run to its end by the foreground coroutine.
NextLeak ==
  \/ PlaceFinger
  \/ RemoveFinger
  \/ Started = 0 /\ set_fingerprint_action
  \/ \E r \in TaskRequests :
       /\ hist = <<>>
       /\ r[1] \in {"delete_fingerprint_task", "clear_database_task"}
       /\ StartTask(Foreground, r[1], r[2])
  \/ Len(hist) = 1 /\ StartTask(Foreground, "enroll_fingerprint_task", None)
  \/ Len(hist) = 2 /\ StartOp("verify_fingerprint_task", None)
  \/ delete_fingerprint_task(Foreground)
  \/ clear_database_task(Foreground)
  \/ enroll_fingerprint_task(Foreground)
  \/ verify_fingerprint_task(Foreground)
  \/ wait_for_finger(Foreground)
  \/ wait_finger_removed(Foreground)
  \/ enroll_finger(Foreground)
  \/ verify_finger(Foreground)
  \/ delete_finger(Foreground)
  \/ clear_database(Foreground)

SpecLeak == Init /\ [][NextLeak]_vars

\* The first request freed position p on the sensor and the second one
\* enrolled a finger there.
Reenrolled(p) ==
  /\ Len(hist) >= 2
  /\ hist[1].val[1]
  /\ \/ hist[1].op = "delete_fingerprint_task" /\ hist[1].val[2] = p
     \/ hist[1].op = "clear_database_task"
  /\ hist[2].op = "enroll_fingerprint_task" /\ hist[2].val = <<TRUE, p>>

\* The verification that followed matched the finger stored at position p.
VerifiedAt(p) ==
  /\ Len(hist) = 3 /\ FgIdle
  /\ hist[3].val[1] /\ hist[3].val[2] = p

\* C38: metadata of a deleted fingerprint never leaks to a new one: after
\* delete_fingerprint_task or clear_database_task succeeded for position p and
\* enroll_fingerprint_task enrolled a finger at p, the entry of p carries no
\* action of the previous occupant, and a verification of the new finger
\* triggers no action.
C38_NoMetadataLeak ==
  \A p \in Positions :
    Reenrolled(p) =>
      /\ metadata[p] = NoAction
      /\ VerifiedAt(p) => executed[Foreground] = <<>>
====
